---- MODULE Spec2Model ----
(***************************************************************************)
(* BlogAPI: the relational store (users, posts, votes, comments) and the   *)
(* service operations of App/services.py, run by concurrent HTTP requests. *)
(* Every request owns its ORM session; a step of a request is one          *)
(* statement (or one flush + commit) against the shared store, which       *)
(* shows every statement the rows committed so far.                        *)
(***************************************************************************)
EXTENDS Integers, FiniteSets, Sequences, TLC

\* ---------------------------------------------------------------- bounds
MaxUsers == 2
MaxPosts == 1
MaxVotes == 2
MaxComments == 1
MaxReqs == 2
MaxText == 2
MaxTime == 2
MaxListed == 2
MaxPage == 2

UserIds == 1..MaxUsers
PostIds == 1..MaxPosts
Reqs == 1..MaxReqs

VARIABLES
    users,          \* rows of table users: [id, username, email, password_hash,
                    \*                       is_active]
    posts,          \* rows of table posts: [id, author_id, title, body, author,
                    \*                       published_at, is_published]
    votes,          \* rows of table votes: [id, user_id, post_id, vote_type]
    comments,       \* rows of table comments: [id, author_id, post_id, content,
                    \*                          created_at, is_active]
    nextUserId,     \* primary-key sequences of the four tables
    nextPostId,
    nextVoteId,
    nextCommentId,
    req,            \* the requests in flight, one record per worker
    hist            \* history: one committed vote call that added a row, or none

vars == <<users, posts, votes, comments, nextUserId, nextPostId, nextVoteId,
          nextCommentId, req, hist>>

\* ------------------------------------------------------------ messages
PostNotFound == "Post not found"
VotingConflict == "Voting conflict occurred, please try again"
DeleteUnauthorized == "Unauthorized to delete this post"
UpdateUnauthorized == "Unauthorized to update this post"
InternalServerError == "Internal server error"
UsernameExists == "Username already exists"
EmailExists == "Email already exists"
UserExistsError == "User already exists"
InvalidCredentials == "Invalid credentials"
AuthenticationFailed == "Authentication failed"
OperationalError == "(sqlite3.OperationalError) database is locked"
UserNotFoundOrInactive == "User not found or inactive"
CommentConstraint == "Error creating comment due to constraint violation"
StaleDataError == "StaleDataError"
AttributeError == "'property' object has no attribute 'desc'"
ArgumentError == "ArgumentError"
ObjectDeletedError == "ObjectDeletedError"

\* ------------------------------------------------------------ text
\* a text is a sequence of characters; None is the absent (omitted) value
Chars == {" ", "a", "A", "_"}

Texts == UNION {[1..n -> Chars] : n \in 0..MaxText}

None == <<"None">>

RECURSIVE LStrip(_)
LStrip(s) == IF s # <<>> /\ Head(s) = " " THEN LStrip(Tail(s)) ELSE s

RECURSIVE RStrip(_)
RStrip(s) ==
    IF s # <<>> /\ s[Len(s)] = " " THEN RStrip(SubSeq(s, 1, Len(s) - 1)) ELSE s

\* str.strip()
Strip(s) == RStrip(LStrip(s))

\* the truth value of an optional text: None and "" are falsy
Truthy(s) == s # None /\ s # <<>>

\* the times a row can be stamped with
Times == 1..MaxTime

\* lower(): the ASCII lower case of a text
Lower(s) == [i \in DOMAIN s |-> IF s[i] = "A" THEN "a" ELSE s[i]]

\* SQL LIKE: % stands for any run of characters, _ for any one character
RECURSIVE LikeMatch(_, _)
LikeMatch(pat, s) ==
    IF pat = <<>> THEN s = <<>>
    ELSE IF Head(pat) = "%"
         THEN LikeMatch(Tail(pat), s) \/ (s # <<>> /\ LikeMatch(pat, Tail(s)))
    ELSE IF Head(pat) = "_"
         THEN s # <<>> /\ LikeMatch(Tail(pat), Tail(s))
    ELSE s # <<>> /\ Head(s) = Head(pat) /\ LikeMatch(Tail(pat), Tail(s))

\* column.ilike(pattern)
ILike(s, pat) == LikeMatch(Lower(pat), Lower(s))

\* the code point of a character
CharCode(c) ==
    CASE c = " " -> 32 [] c = "A" -> 65 [] c = "_" -> 95 [] c = "a" -> 97

\* the order of two texts in the store's binary collation
RECURSIVE TextLeq(_, _)
TextLeq(s, t) ==
    IF s = <<>> THEN TRUE
    ELSE IF t = <<>> THEN FALSE
    ELSE IF Head(s) # Head(t) THEN CharCode(Head(s)) < CharCode(Head(t))
    ELSE TextLeq(Tail(s), Tail(t))

\* ------------------------------------------------------------ store reads
\* Post.query.get(post_id)
PostExists(ps, p) == \E x \in ps : x.id = p

PostRow(ps, p) == CHOOSE x \in ps : x.id = p

\* PostService.get_post_by_id: the error of the (post, error) pair
GetPostById(ps, p) == IF PostExists(ps, p) THEN "" ELSE PostNotFound

\* Vote.query.filter_by(user_id=u, post_id=p)
VotesOf(vs, u, p) == {v \in vs : v.user_id = u /\ v.post_id = p}

\* Post.upvotes
Upvotes(vs, p) == Cardinality({v \in vs : v.post_id = p /\ v.vote_type})

\* Post.downvotes
Downvotes(vs, p) == Cardinality({v \in vs : v.post_id = p /\ ~v.vote_type})

\* Post.vote_score
VoteScore(vs, p) == Upvotes(vs, p) - Downvotes(vs, p)

\* the (user, post) state of section 4.1, read off the rows
VoteState(vs, u, p) ==
    IF VotesOf(vs, u, p) = {} THEN "no-vote"
    ELSE IF \E v \in VotesOf(vs, u, p) : v.vote_type THEN "upvoted"
    ELSE "downvoted"

\* User.query.get(user_id)
UserExists(us, u) == \E x \in us : x.id = u

\* jwt_required_custom on a valid token of user u: the user is a row of the
\* table and is active
Authenticated(us, u) == \E x \in us : x.id = u /\ x.is_active

\* ------------------------------------------------------------ constraints
\* the votes table without its uniqueness constraint
UniqueViolationOff(vs, u, p) == FALSE

\* UniqueConstraint('user_id', 'post_id') of table votes
UniqueViolation(vs, u, p) == VotesOf(vs, u, p) # {}

\* ForeignKey('users.id') and ForeignKey('posts.id') of a new vote or comment
ForeignKeyViolation(fk, us, ps, u, p) ==
    fk /\ (~UserExists(us, u) \/ ~PostExists(ps, p))

\* ------------------------------------------------------------ cascades
\* Post.votes without the delete cascade
PostVotesNoCascade(vs, gone) == vs

\* Post.votes, cascade='all, delete-orphan'
PostVotesCascade(vs, gone) == {v \in vs : v.post_id \notin gone}

\* Post.comments, cascade='all, delete-orphan'
PostCommentsCascade(cs, gone) == {c \in cs : c.post_id \notin gone}

\* User.posts, cascade='all, delete-orphan'
UserPostsCascade(ps, u) == {x \in ps : x.author_id # u}

\* User.votes without the delete cascade
UserVotesNoCascade(vs, u) == vs

\* User.votes, cascade='all, delete-orphan'
UserVotesCascade(vs, u) == {v \in vs : v.user_id # u}

\* User.comments, cascade='all, delete-orphan'
UserCommentsCascade(cs, u) == {c \in cs : c.author_id # u}

\* ------------------------------------------------------------ HTTP mapping
\* vote_on_post answering every failure of vote_post alike
VoteHttpNoNotFound(err) == IF err = "" THEN 200 ELSE 400

\* vote_on_post answering a failure other than 'Post not found' as a server error
VoteHttpConflict500(err) ==
    IF err = "" THEN 200 ELSE IF err = "Post not found" THEN 404 ELSE 500

\* routes.vote_on_post: status of the (result, error) pair
VoteHttp(err) ==
    IF err = "" THEN 200 ELSE IF err = PostNotFound THEN 404 ELSE 400

\* routes.delete_post
DeleteHttp(err) ==
    IF err = "" THEN 200 ELSE IF err = PostNotFound THEN 404 ELSE 403

\* routes.update_post: status of the failures it answers itself and of the
\* (updated_post, update_error) pair
UpdateHttp(err) ==
    IF err = "" THEN 200
    ELSE IF err = PostNotFound THEN 404
    ELSE IF err = UpdateUnauthorized THEN 403
    ELSE IF err = InternalServerError THEN 500
    ELSE 400

\* routes.register: status of the (user, error) pair
RegisterHttp(err) == IF err = "" THEN 201 ELSE 400

\* routes.login: status of the (user, error) pair
LoginHttp(err) == IF err = "" THEN 200 ELSE 401

\* routes.create_comment
CommentHttp(err) ==
    IF err = "" THEN 201 ELSE IF err = PostNotFound THEN 404 ELSE 400

\* ------------------------------------------------------------ tokens
\* what a request carries in its Authorization header: nothing, a header
\* that is no bearer token, a token that fails verification, a token past
\* its expiry, or a verified token with the user id it was issued for
NoToken == [kind |-> "none", sub |-> 0]

ValidToken(u) == [kind |-> "valid", sub |-> u]

Tokens ==
    {[kind |-> k, sub |-> 0] : k \in {"none", "malformed", "invalid", "expired"}}
    \cup {ValidToken(u) : u \in UserIds}

\* a token is issued by register and login only, for the id of a row of users
Issued(tok) == tok.kind = "valid" => tok.sub < nextUserId

\* jwt_required_custom testing only that the user row is there
JwtRequiredCustomNoActive(tok, us) ==
    IF tok.kind # "valid"
    THEN [status |-> 401, err |-> AuthenticationFailed, user |-> 0]
    ELSE IF ~UserExists(us, tok.sub)
    THEN [status |-> 401, err |-> UserNotFoundOrInactive, user |-> 0]
    ELSE [status |-> 0, err |-> "", user |-> tok.sub]

\* jwt_required_custom putting on the request an active user, whichever
JwtRequiredCustomAnyUser(tok, us) ==
    IF tok.kind # "valid"
    THEN [status |-> 401, err |-> AuthenticationFailed, user |-> 0]
    ELSE IF ~Authenticated(us, tok.sub)
    THEN [status |-> 401, err |-> UserNotFoundOrInactive, user |-> 0]
    ELSE [status |-> 0, err |-> "",
          user |-> CHOOSE u \in {x.id : x \in {y \in us : y.is_active}} : TRUE]

\* jwt_required_custom: the 401 answer of the decorator, or status 0 and the
\* user it puts on the request
JwtRequiredCustom(tok, us) ==
    IF tok.kind # "valid"
    THEN [status |-> 401, err |-> AuthenticationFailed, user |-> 0]
    ELSE IF ~Authenticated(us, tok.sub)
    THEN [status |-> 401, err |-> UserNotFoundOrInactive, user |-> 0]
    ELSE [status |-> 0, err |-> "", user |-> tok.sub]

\* jwt_optional_custom answering 401 itself when verification fails
JwtOptionalCustomStrict(tok, us) ==
    IF tok.kind = "valid" /\ Authenticated(us, tok.sub)
    THEN [status |-> 0, user |-> tok.sub]
    ELSE IF tok.kind \in {"invalid", "expired"}
    THEN [status |-> 401, user |-> 0]
    ELSE [status |-> 0, user |-> 0]

\* jwt_optional_custom: the user it puts on the request, 0 for None; it
\* answers nothing itself
JwtOptionalCustom(tok, us) ==
    IF tok.kind = "valid" /\ Authenticated(us, tok.sub)
    THEN [status |-> 0, user |-> tok.sub]
    ELSE [status |-> 0, user |-> 0]

\* ------------------------------------------------------------ requests
\* no Post object in the session of the request
NoPost ==
    [id |-> 0, author_id |-> 0, title |-> <<>>, body |-> <<>>, author |-> <<>>,
     published_at |-> 0, is_published |-> FALSE]

IdleReq ==
    [op |-> "none", pc |-> "idle", user |-> 0, post |-> 0, vt |-> FALSE,
     ex |-> 0, exType |-> FALSE, action |-> "", err |-> "", status |-> 0,
     ups |-> 0, downs |-> 0, score |-> 0, title |-> None, body |-> None,
     q |-> <<>>, page |-> 0, per_page |-> 0, sort_by |-> "", order |-> "",
     items |-> <<>>, username |-> <<>>, email |-> <<>>, password |-> <<>>,
     token |-> 0, tok |-> NoToken, content |-> None, crossed |-> FALSE,
     has_voted |-> FALSE, vote |-> "null", loaded |-> NoPost]

Finish(r, err, status) ==
    req' = [req EXCEPT ![r].pc = "done", ![r].err = err, ![r].status = status,
                       ![r].ex = 0, ![r].exType = FALSE]

\* ------------------------------------------------------------ history
NoHist == [kind |-> "none"]

\* rows on post p that belong to users other than u
OtherRows(vs, u, p) == {v \in vs : v.post_id = p /\ v.user_id # u}

\* the remembered call is forgotten once the rows of its (user, post) change,
\* and marked once the other rows on its post change
HistAfter(h, vsOld, vsNew) ==
    IF h = NoHist THEN NoHist
    ELSE IF VotesOf(vsOld, h.user, h.post) # VotesOf(vsNew, h.user, h.post) THEN NoHist
    ELSE IF OtherRows(vsOld, h.user, h.post) # OtherRows(vsNew, h.user, h.post)
         THEN [h EXCEPT !.clean = FALSE]
    ELSE h

Init ==
    /\ users = {}
    /\ posts = {}
    /\ votes = {}
    /\ comments = {}
    /\ nextUserId = 1
    /\ nextPostId = 1
    /\ nextVoteId = 1
    /\ nextCommentId = 1
    /\ req = [r \in Reqs |-> IdleReq]
    /\ hist = NoHist

\* ------------------------------------------------------------ users
\* generate_password_hash(password) and check_password_hash(hash, password)
PasswordHash(password) == [bcrypt |-> password]

CheckPasswordHash(hash, password) == hash = PasswordHash(password)

\* the row UserService.create_user inserts; is_active takes its default
NewUser(id, username, email, password) ==
    [id |-> id, username |-> Strip(username), email |-> Strip(email),
     password_hash |-> PasswordHash(password), is_active |-> TRUE]

\* table users with username as its only unique column
UsersUniqueViolationsNoEmail(us, row) ==
    {c \in {"username"} : \E x \in us : x.username = row.username}

\* the unique columns of table users on which the new row meets an old one
UsersUniqueViolations(us, row) ==
    {c \in {"username", "email"} :
        \E x \in us : IF c = "username" THEN x.username = row.username
                                         ELSE x.email = row.email}

\* UserService.create_user, its except IntegrityError clause: the message
\* for the column that the detail of the violation names
CreateUserError(detail) ==
    IF detail = "username" THEN UsernameExists
    ELSE IF detail = "email" THEN EmailExists
    ELSE UserExistsError

\* a text of i characters, one for each id
FreshText(i) == [k \in 1..i |-> "a"]

\* routes.register + UserService.create_user, the response dropped: a new
\* row in users unless a unique column collides
Register(username, email, password) ==
    /\ nextUserId <= MaxUsers
    /\ UsersUniqueViolations(users, NewUser(nextUserId, username, email, password)) = {}
    /\ users' = users \cup {NewUser(nextUserId, username, email, password)}
    /\ nextUserId' = nextUserId + 1
    /\ UNCHANGED <<posts, votes, comments, nextPostId, nextVoteId,
                   nextCommentId, req, hist>>

\* routes.register with validated data, then create_user up to
\* db.session.add(user)
RegisterBegin(r, username, email, password) ==
    /\ req[r].pc = "idle"
    /\ req' = [req EXCEPT ![r] = [IdleReq EXCEPT !.op = "register", !.pc = "register_flush",
                                                !.username = username, !.email = email,
                                                !.password = password]]
    /\ UNCHANGED <<users, posts, votes, comments, nextUserId, nextPostId,
                   nextVoteId, nextCommentId, hist>>

\* db.session.commit() of the new user, or the IntegrityError for one of the
\* unique columns that collide; the token for the new user's id
RegisterFlush(r) ==
    /\ req[r].pc = "register_flush"
    /\ LET row == NewUser(nextUserId, req[r].username, req[r].email, req[r].password)
           bad == UsersUniqueViolations(users, row)
       IN IF bad # {}
          THEN /\ \E detail \in bad :
                     Finish(r, CreateUserError(detail), RegisterHttp(CreateUserError(detail)))
               /\ UNCHANGED <<users, nextUserId>>
          ELSE /\ nextUserId <= MaxUsers
               /\ users' = users \cup {row}
               /\ nextUserId' = nextUserId + 1
               /\ req' = [req EXCEPT ![r].pc = "done", ![r].status = RegisterHttp(""),
                                     ![r].token = row.id]
    /\ UNCHANGED <<posts, votes, comments, nextPostId, nextVoteId, nextCommentId, hist>>

\* authenticate_user without the test of user.is_active
AuthenticateUserNoActive(us, username, password) ==
    LET found == {x \in us : /\ x.username = username
                             /\ x.password_hash = [bcrypt |-> password]}
    IN IF found # {} THEN [user |-> (CHOOSE x \in found : TRUE).id, err |-> ""]
       ELSE [user |-> 0, err |-> "Invalid credentials"]

\* UserService.authenticate_user: the user's id and the error
AuthenticateUser(us, username, password) ==
    LET found == {x \in us : /\ x.username = username
                             /\ CheckPasswordHash(x.password_hash, password)
                             /\ x.is_active}
    IN IF found # {} THEN [user |-> (CHOOSE x \in found : TRUE).id, err |-> ""]
       ELSE [user |-> 0, err |-> InvalidCredentials]

\* routes.login with validated data
Login(r, username, password) ==
    /\ req[r].pc = "idle"
    /\ LET res == AuthenticateUser(users, username, password)
       IN req' = [req EXCEPT ![r] = [IdleReq EXCEPT !.op = "login", !.pc = "done",
                                                   !.username = username,
                                                   !.password = password,
                                                   !.err = res.err,
                                                   !.status = LoginHttp(res.err),
                                                   !.token = res.user]]
    /\ UNCHANGED <<users, posts, votes, comments, nextUserId, nextPostId,
                   nextVoteId, nextCommentId, hist>>

\* User.is_active set to False in the store (no route does it)
DeactivateUser(u) ==
    /\ \E x \in users : x.id = u /\ x.is_active
    /\ users' = {IF x.id = u THEN [x EXCEPT !.is_active = FALSE] ELSE x : x \in users}
    /\ UNCHANGED <<posts, votes, comments, nextUserId, nextPostId, nextVoteId,
                   nextCommentId, req, hist>>

\* the rows left when user u is deleted through the ORM: the cascades of
\* User.posts, User.comments, User.votes and, for each deleted post, of
\* Post.votes and Post.comments
DeleteUserResult(us, ps, vs, cs, u) ==
    LET gone == {x.id : x \in {y \in ps : y.author_id = u}}
    IN [users |-> {x \in us : x.id # u},
        posts |-> UserPostsCascade(ps, u),
        votes |-> PostVotesCascade(UserVotesCascade(vs, u), gone),
        comments |-> PostCommentsCascade(UserCommentsCascade(cs, u), gone)]

\* db.session.delete(user); db.session.commit()
DeleteUser(u) ==
    /\ UserExists(users, u)
    /\ LET res == DeleteUserResult(users, posts, votes, comments, u)
       IN /\ users' = res.users
          /\ posts' = res.posts
          /\ votes' = res.votes
          /\ comments' = res.comments
          /\ hist' = HistAfter(hist, votes, res.votes)
    /\ UNCHANGED <<nextUserId, nextPostId, nextVoteId, nextCommentId, req>>

\* ------------------------------------------------------------ posts
\* the row PostService.create_post inserts; published_at and is_published
\* take their column defaults
NewPost(id, u, title, body, author, at) ==
    [id |-> id, author_id |-> u, title |-> Strip(title), body |-> Strip(body),
     author |-> Strip(author), published_at |-> at, is_published |-> TRUE]

\* routes.create_post + PostService.create_post, the clock reading `at`
CreatePost(tok, title, body, author, at) ==
    LET u == JwtRequiredCustom(tok, users).user IN
    /\ JwtRequiredCustom(tok, users).status = 0
    /\ nextPostId <= MaxPosts
    /\ at \in Times
    /\ posts' = posts \cup {NewPost(nextPostId, u, title, body, author, at)}
    /\ nextPostId' = nextPostId + 1
    /\ UNCHANGED <<users, votes, comments, nextUserId, nextVoteId,
                   nextCommentId, req, hist>>

\* the id the store gives the row inserted into posts, whose column is
\* `id INTEGER PRIMARY KEY`: one more than the largest id in the table on the
\* configured SQLite store (rowid), the next value of the sequence on a store
\* that numbers the rows from one
NewPostId(ps, seq, rowid) ==
    IF ~rowid THEN seq
    ELSE IF ps = {} THEN 1
    ELSE (CHOOSE m \in {x.id : x \in ps} : \A x \in ps : x.id <= m) + 1

\* routes.create_post behind jwt_required_custom with validated data, and
\* PostService.create_post, the clock reading `at`: the answer is 201
CreatePostRequest(r, tok, title, body, author, at, rowid) ==
    LET u == JwtRequiredCustom(tok, users).user
        id == NewPostId(posts, nextPostId, rowid)
    IN
    /\ req[r].pc = "idle"
    /\ JwtRequiredCustom(tok, users).status = 0
    /\ id <= MaxPosts
    /\ at \in Times
    /\ posts' = posts \cup {NewPost(id, u, title, body, author, at)}
    /\ nextPostId' = IF id >= nextPostId THEN id + 1 ELSE nextPostId
    /\ req' = [req EXCEPT ![r] = [IdleReq EXCEPT !.op = "create_post", !.pc = "done",
                                                 !.user = u, !.tok = tok,
                                                 !.post = id,
                                                 !.title = title, !.body = body,
                                                 !.status = 201]]
    /\ UNCHANGED <<users, votes, comments, nextUserId, nextVoteId,
                   nextCommentId, hist>>

\* PostService.delete_post up to the end of its with-block: the error it
\* returns from inside the block ("" when the delete is left pending)
DeletePostCheck(ps, p, author_id) ==
    IF ~PostExists(ps, p) THEN PostNotFound
    ELSE IF author_id # 0 /\ PostRow(ps, p).author_id # author_id THEN DeleteUnauthorized
    ELSE ""

\* routes.delete_post behind jwt_required_custom, then delete_post up to
\* db.session.delete(post)
DeletePostBegin(r, tok, p) ==
    LET u == JwtRequiredCustom(tok, users).user IN
    /\ req[r].pc = "idle"
    /\ JwtRequiredCustom(tok, users).status = 0
    /\ LET q == [IdleReq EXCEPT !.op = "delete_post", !.user = u, !.post = p,
                                !.tok = tok]
           err == DeletePostCheck(posts, p, u)
       IN req' = [req EXCEPT ![r] =
                    IF err = "" THEN [q EXCEPT !.pc = "delete_flush"]
                    ELSE [q EXCEPT !.pc = "done", !.err = err, !.status = DeleteHttp(err)]]
    /\ UNCHANGED <<users, posts, votes, comments, nextUserId, nextPostId,
                   nextVoteId, nextCommentId, hist>>

\* the flush of db.session.delete(post): the post row goes, and with it the
\* rows of Post.votes and Post.comments
DeletePostResult(ps, vs, cs, p) ==
    [posts |-> {x \in ps : x.id # p},
     votes |-> PostVotesCascade(vs, {p}),
     comments |-> PostCommentsCascade(cs, {p})]

\* leaving the with-block flushes; db.session.commit(); return True, None
DeletePostFlush(r) ==
    /\ req[r].pc = "delete_flush"
    /\ LET res == DeletePostResult(posts, votes, comments, req[r].post)
       IN /\ posts' = res.posts
          /\ votes' = res.votes
          /\ comments' = res.comments
          /\ hist' = HistAfter(hist, votes, res.votes)
    /\ Finish(r, "", DeleteHttp(""))
    /\ UNCHANGED <<users, nextUserId, nextPostId, nextVoteId, nextCommentId>>

\* update_post without the comparison of post.author_id with the caller
UpdatePostCheckNoAuthor(ps, p, u) ==
    IF \E x \in ps : x.id = p THEN "" ELSE "Post not found"

\* routes.update_post, the checks before it calls the service: the error it
\* answers ("" when it goes on to PostService.update_post)
UpdatePostCheck(ps, p, u) ==
    IF GetPostById(ps, p) # "" THEN GetPostById(ps, p)
    ELSE IF PostRow(ps, p).author_id # u THEN UpdateUnauthorized
    ELSE ""

\* update_post assigning every field that is not None, the empty ones too
UpdatePostResultOverwrite(row, title, body, author_id) ==
    [row EXCEPT !.title = IF title # None THEN Strip(title) ELSE @,
                !.body = IF body # None THEN Strip(body) ELSE @,
                !.author_id = IF author_id # 0 THEN author_id ELSE @]

\* PostService.update_post, the assignments of its with-block on the row
UpdatePostResult(row, title, body, author_id) ==
    [row EXCEPT !.title = IF Truthy(title) THEN Strip(title) ELSE @,
                !.body = IF Truthy(body) THEN Strip(body) ELSE @,
                !.author_id = IF author_id # 0 THEN author_id ELSE @]

\* routes.update_post behind jwt_required_custom with validated data, then
\* update_post up to the end of its with-block; the post the route loaded is
\* the one the service gets from the session
UpdateBegin(r, tok, p, title, body) ==
    LET u == JwtRequiredCustom(tok, users).user IN
    /\ req[r].pc = "idle"
    /\ JwtRequiredCustom(tok, users).status = 0
    /\ title # None \/ body # None
    /\ LET q == [IdleReq EXCEPT !.op = "update_post", !.user = u, !.post = p,
                                !.title = title, !.body = body,
                                !.tok = tok,
                                !.loaded = IF PostExists(posts, p) THEN PostRow(posts, p)
                                           ELSE NoPost]
           err == UpdatePostCheck(posts, p, u)
       IN req' = [req EXCEPT ![r] =
                    IF err = "" THEN [q EXCEPT !.pc = "update_flush"]
                    ELSE [q EXCEPT !.pc = "done", !.err = err, !.status = UpdateHttp(err)]]
    /\ UNCHANGED <<users, posts, votes, comments, nextUserId, nextPostId,
                   nextVoteId, nextCommentId, hist>>

\* the UPDATE the session flushes for a Post object loaded as `loaded` and
\* assigned to `new`: it sets the columns whose value the assignments changed,
\* on the row that has the object's id now
FlushUpdate(x, loaded, new) ==
    [x EXCEPT !.title = IF new.title # loaded.title THEN new.title ELSE @,
              !.body = IF new.body # loaded.body THEN new.body ELSE @,
              !.author_id = IF new.author_id # loaded.author_id THEN new.author_id ELSE @]

\* leaving the with-block flushes the UPDATE of the row by its id (updated_at
\* is always assigned, so there is always an UPDATE); db.session.commit(),
\* which expires the loaded object; the except clauses, which roll it back
UpdateFlush(r) ==
    /\ req[r].pc = "update_flush"
    /\ IF PostExists(posts, req[r].post)
       THEN /\ posts' = {IF x.id = req[r].post
                         THEN FlushUpdate(x, req[r].loaded,
                                          UpdatePostResult(req[r].loaded, req[r].title,
                                                           req[r].body, req[r].user))
                         ELSE x : x \in posts}
            /\ req' = [req EXCEPT ![r].pc = "update_return", ![r].loaded = NoPost]
       ELSE /\ posts' = posts
            /\ req' = [req EXCEPT ![r].pc = "done", ![r].loaded = NoPost,
                                  ![r].err = StaleDataError,
                                  ![r].status = UpdateHttp(StaleDataError)]
    /\ UNCHANGED <<users, votes, comments, nextUserId, nextPostId,
                   nextVoteId, nextCommentId, hist>>

\* serialize_data(PostResponseSchema, updated_post) reloads the row the commit
\* expired; a failure here is caught by the route's own except clause
UpdateReturn(r) ==
    /\ req[r].pc = "update_return"
    /\ IF PostExists(posts, req[r].post)
       THEN Finish(r, "", UpdateHttp(""))
       ELSE Finish(r, InternalServerError, UpdateHttp(InternalServerError))
    /\ UNCHANGED <<users, posts, votes, comments, nextUserId, nextPostId,
                   nextVoteId, nextCommentId, hist>>

\* ------------------------------------------------------------ listing
\* the orders in which a query can return the rows of S
Perms(S) ==
    {f \in [1..Cardinality(S) -> S] :
        \A i, j \in 1..Cardinality(S) : i # j => f[i] # f[j]}

\* ORDER BY column [DESC] over the rows of a sequence
OrderedBy(seq, column, order) ==
    \A i, j \in 1..Len(seq) :
        i < j => LET lo == IF order = "desc" THEN seq[j] ELSE seq[i]
                     hi == IF order = "desc" THEN seq[i] ELSE seq[j]
                 IN IF column = "title" THEN TextLeq(lo.title, hi.title)
                    ELSE lo[column] <= hi[column]

\* paginate(page, per_page, error_out=False): the ids of the rows of the page
Paginate(seq, page, per_page) ==
    LET first == (page - 1) * per_page + 1
        last == IF page * per_page < Len(seq) THEN page * per_page ELSE Len(seq)
    IN [i \in 1..(IF last >= first THEN last - first + 1 ELSE 0) |-> seq[first + i - 1].id]

\* the pages a query over the rows of S, ordered by the column, can return
QueryPages(S, column, order, page, per_page) ==
    {Paginate(f, page, per_page) : f \in {g \in Perms(S) : OrderedBy(g, column, order)}}

\* getattr(Post, sort_by, Post.published_at): a column of the table, or the
\* Python property Post.vote_score
SortColumn(sort_by) ==
    IF sort_by \in {"published_at", "title"} THEN [kind |-> "column", name |-> sort_by]
    ELSE IF sort_by = "vote_score" THEN [kind |-> "property", name |-> sort_by]
    ELSE [kind |-> "column", name |-> "published_at"]

\* PostService.get_all_posts: its error and the pages it can return
GetAllPosts(ps, page, per_page, sort_by, order) ==
    LET col == SortColumn(sort_by)
    IN IF col.kind = "property"
       THEN [err |-> IF order = "desc" THEN AttributeError ELSE ArgumentError,
             pages |-> {}]
       ELSE [err |-> "",
             pages |-> QueryPages({x \in ps : x.is_published}, col.name, order,
                                  page, per_page)]

\* search_posts testing and matching the query as it came, untrimmed
SearchPostsNoStrip(ps, q, page, per_page) ==
    IF ~Truthy(q)
    THEN GetAllPosts(ps, page, per_page, "published_at", "desc")
    ELSE LET search_term == <<"%">> \o q \o <<"%">>
         IN [err |-> "",
             pages |-> QueryPages({x \in ps : /\ x.is_published
                                              /\ \/ ILike(x.title, search_term)
                                                 \/ ILike(x.body, search_term)},
                                  "published_at", "desc", page, per_page)]

\* PostService.search_posts: its error and the pages it can return
SearchPosts(ps, q, page, per_page) ==
    IF ~Truthy(q) \/ ~Truthy(Strip(q))
    THEN GetAllPosts(ps, page, per_page, "published_at", "desc")
    ELSE LET search_term == <<"%">> \o Strip(q) \o <<"%">>
         IN [err |-> "",
             pages |-> QueryPages({x \in ps : /\ x.is_published
                                              /\ \/ ILike(x.title, search_term)
                                                 \/ ILike(x.body, search_term)},
                                  "published_at", "desc", page, per_page)]

\* routes.list_posts and routes.search_posts: status of the (pagination, error) pair
ListHttp(err) == IF err = "" THEN 200 ELSE 500

\* routes.list_posts behind jwt_optional_custom, with validated query
\* parameters
ListPosts(r, tok, page, per_page, sort_by, order) ==
    /\ req[r].pc = "idle"
    /\ Issued(tok)
    /\ LET auth == JwtOptionalCustom(tok, users)
           q == [IdleReq EXCEPT !.op = "list_posts", !.pc = "done", !.page = page,
                                !.per_page = per_page, !.sort_by = sort_by,
                                !.order = order, !.tok = tok, !.user = auth.user]
           res == GetAllPosts(posts, page, per_page, sort_by, order)
       IN IF auth.status # 0
          THEN req' = [req EXCEPT ![r] = [q EXCEPT !.status = auth.status]]
          ELSE IF res.err # ""
          THEN req' = [req EXCEPT ![r] = [q EXCEPT !.err = res.err,
                                                   !.status = ListHttp(res.err)]]
          ELSE \E items \in res.pages :
                  req' = [req EXCEPT ![r] = [q EXCEPT !.items = items,
                                                      !.status = ListHttp("")]]
    /\ UNCHANGED <<users, posts, votes, comments, nextUserId, nextPostId,
                   nextVoteId, nextCommentId, hist>>

\* routes.search_posts behind jwt_optional_custom, with validated query
\* parameters; sort_by and order are validated and not passed on
SearchRequest(r, tok, text, page, per_page, sort_by, order) ==
    /\ req[r].pc = "idle"
    /\ Issued(tok)
    /\ LET auth == JwtOptionalCustom(tok, users)
           q == [IdleReq EXCEPT !.op = "search_posts", !.pc = "done", !.q = text,
                                !.page = page, !.per_page = per_page,
                                !.sort_by = sort_by, !.order = order,
                                !.tok = tok, !.user = auth.user]
           res == SearchPosts(posts, text, page, per_page)
       IN IF auth.status # 0
          THEN req' = [req EXCEPT ![r] = [q EXCEPT !.status = auth.status]]
          ELSE IF res.err # ""
          THEN req' = [req EXCEPT ![r] = [q EXCEPT !.err = res.err,
                                                   !.status = ListHttp(res.err)]]
          ELSE \E items \in res.pages :
                  req' = [req EXCEPT ![r] = [q EXCEPT !.items = items,
                                                      !.status = ListHttp("")]]
    /\ UNCHANGED <<users, posts, votes, comments, nextUserId, nextPostId,
                   nextVoteId, nextCommentId, hist>>

\* ------------------------------------------------------------ comments
CommentsInFlight == Cardinality({s \in Reqs : req[s].pc = "comment_insert"})

\* Comment(content=content) keeping the content as it came
NewCommentNoStrip(id, content, author_id, post_id, at) ==
    [id |-> id, author_id |-> author_id, post_id |-> post_id,
     content |-> content, created_at |-> at, is_active |-> TRUE]

\* the row create_comment inserts; created_at and is_active take their
\* column defaults
NewComment(id, content, author_id, post_id, at) ==
    [id |-> id, author_id |-> author_id, post_id |-> post_id,
     content |-> Strip(content), created_at |-> at, is_active |-> TRUE]

\* routes.create_comment behind jwt_required_custom, with content that
\* passes CommentCreateSchema, then create_comment up to db.session.add(comment)
CommentBegin(r, tok, p, content) ==
    LET u == JwtRequiredCustom(tok, users).user IN
    /\ req[r].pc = "idle"
    /\ JwtRequiredCustom(tok, users).status = 0
    /\ Len(content) >= 1
    /\ nextCommentId + CommentsInFlight <= MaxComments
    /\ LET q == [IdleReq EXCEPT !.op = "create_comment", !.user = u, !.post = p,
                                !.tok = tok, !.content = content]
       IN req' = [req EXCEPT ![r] =
                    IF PostExists(posts, p) THEN [q EXCEPT !.pc = "comment_insert"]
                    ELSE [q EXCEPT !.pc = "done", !.err = PostNotFound,
                                   !.status = CommentHttp(PostNotFound)]]
    /\ UNCHANGED <<users, posts, votes, comments, nextUserId, nextPostId,
                   nextVoteId, nextCommentId, hist>>

\* db.session.commit() of the new comment at time at; the except clauses
CommentInsert(r, at) ==
    /\ req[r].pc = "comment_insert"
    /\ at \in Times
    /\ \E fk \in BOOLEAN :
        IF ForeignKeyViolation(fk, users, posts, req[r].user, req[r].post)
        THEN /\ Finish(r, CommentConstraint, CommentHttp(CommentConstraint))
             /\ UNCHANGED <<comments, nextCommentId>>
        ELSE /\ comments' = comments \cup {NewComment(nextCommentId, req[r].content,
                                                       req[r].user, req[r].post, at)}
             /\ nextCommentId' = nextCommentId + 1
             /\ Finish(r, "", CommentHttp(""))
    /\ UNCHANGED <<users, posts, votes, nextUserId, nextPostId, nextVoteId, hist>>

\* ------------------------------------------------------------ voting
\* vote_post without the toggle: an existing vote is always updated
VoteActionNoToggle(ex, exType, vt) == IF ex # 0 THEN "updated" ELSE "added"

\* VoteService.vote_post, the branch taken on the row it read
VoteAction(ex, exType, vt) ==
    IF ex # 0 THEN (IF exType = vt THEN "removed" ELSE "updated") ELSE "added"

\* pending inserts, each of which may take a row id from the sequence
VotesInFlight ==
    Cardinality({s \in Reqs : req[s].pc = "vote_flush" /\ req[s].action = "added"})

\* routes.vote_on_post behind jwt_required_custom, then vote_post up to the
\* end of its with-block: the post is looked up, the existing vote is read
\* and the change is left pending in the session
VoteBegin(r, tok, p, vt) ==
    LET u == JwtRequiredCustom(tok, users).user IN
    /\ req[r].pc = "idle"
    /\ JwtRequiredCustom(tok, users).status = 0
    /\ LET q == [IdleReq EXCEPT !.op = "vote", !.user = u, !.post = p, !.vt = vt,
                                !.tok = tok]
           found == VotesOf(votes, u, p)
       IN IF ~PostExists(posts, p)
          THEN req' = [req EXCEPT ![r] = [q EXCEPT !.pc = "done", !.err = PostNotFound,
                                                   !.status = VoteHttp(PostNotFound)]]
          ELSE \/ /\ found = {}
                  /\ nextVoteId + VotesInFlight <= MaxVotes
                  /\ req' = [req EXCEPT ![r] = [q EXCEPT !.pc = "vote_flush",
                                                  !.action = VoteAction(0, FALSE, vt)]]
               \/ \E v \in found :
                     req' = [req EXCEPT ![r] = [q EXCEPT !.pc = "vote_flush", !.ex = v.id,
                                                  !.exType = v.vote_type,
                                                  !.action = VoteAction(v.id, v.vote_type, vt)]]
    /\ UNCHANGED <<users, posts, votes, comments, nextUserId, nextPostId,
                   nextVoteId, nextCommentId, hist>>

\* a flush that loses the pending delete of the toggled-off vote
VoteFlushResultKeepRow(q, vs, us, ps, fk, newId) ==
    IF q.action = "removed" THEN [votes |-> vs, err |-> ""]
    ELSE IF q.action = "updated"
    THEN IF \E v \in vs : v.id = q.ex
         THEN [votes |-> {IF v.id = q.ex THEN [v EXCEPT !.vote_type = q.vt] ELSE v : v \in vs},
               err |-> ""]
         ELSE [votes |-> vs, err |-> "StaleDataError"]
    ELSE IF VotesOf(vs, q.user, q.post) # {}
         THEN [votes |-> vs, err |-> "Voting conflict occurred, please try again"]
         ELSE [votes |-> vs \cup {[id |-> newId, user_id |-> q.user,
                                   post_id |-> q.post, vote_type |-> q.vt]},
               err |-> ""]

\* a flush that adds a second row for a changed vote instead of updating it
VoteFlushResultAddsRow(q, vs, us, ps, fk, newId) ==
    IF q.action = "removed"
    THEN [votes |-> {v \in vs : v.id # q.ex}, err |-> ""]
    ELSE IF q.action = "updated"
    THEN [votes |-> vs \cup {[id |-> 0, user_id |-> q.user,
                              post_id |-> q.post, vote_type |-> q.vt]},
          err |-> ""]
    ELSE IF VotesOf(vs, q.user, q.post) # {}
         THEN [votes |-> vs, err |-> "Voting conflict occurred, please try again"]
         ELSE [votes |-> vs \cup {[id |-> newId, user_id |-> q.user,
                                   post_id |-> q.post, vote_type |-> q.vt]},
               err |-> ""]

\* a flush whose DELETE of the toggled-off vote names the post, not the row
VoteFlushResultWholePost(q, vs, us, ps, fk, newId) ==
    IF q.action = "removed"
    THEN [votes |-> {v \in vs : v.post_id # q.post}, err |-> ""]
    ELSE IF q.action = "updated"
    THEN IF \E v \in vs : v.id = q.ex
         THEN [votes |-> {IF v.id = q.ex THEN [v EXCEPT !.vote_type = q.vt] ELSE v : v \in vs},
               err |-> ""]
         ELSE [votes |-> vs, err |-> "StaleDataError"]
    ELSE IF VotesOf(vs, q.user, q.post) # {}
         THEN [votes |-> vs, err |-> "Voting conflict occurred, please try again"]
         ELSE [votes |-> vs \cup {[id |-> newId, user_id |-> q.user,
                                   post_id |-> q.post, vote_type |-> q.vt]},
               err |-> ""]

\* the flush of the pending change and db.session.commit(): the rows after
\* it and the error it raises ("" when it commits)
VoteFlushResult(q, vs, us, ps, fk, newId) ==
    IF q.action = "removed"
    THEN [votes |-> {v \in vs : v.id # q.ex}, err |-> ""]
    ELSE IF q.action = "updated"
    THEN IF \E v \in vs : v.id = q.ex
         THEN [votes |-> {IF v.id = q.ex THEN [v EXCEPT !.vote_type = q.vt] ELSE v : v \in vs},
               err |-> ""]
         ELSE [votes |-> vs, err |-> StaleDataError]
    ELSE IF UniqueViolation(vs, q.user, q.post)
            \/ ForeignKeyViolation(fk, us, ps, q.user, q.post)
         THEN [votes |-> vs, err |-> VotingConflict]
         ELSE [votes |-> vs \cup {[id |-> newId, user_id |-> q.user,
                                   post_id |-> q.post, vote_type |-> q.vt]},
               err |-> ""]

\* the history entry of a committed vote call that added a row
HistOfCall(q, vs, newId) ==
    [kind |-> "added", user |-> q.user, post |-> q.post, vt |-> q.vt, row |-> newId,
     ups0 |-> Upvotes(vs, q.post), downs0 |-> Downvotes(vs, q.post), clean |-> TRUE]

\* leaving the with-block flushes; db.session.commit(); the except clauses
VoteFlush(r) ==
    /\ req[r].pc = "vote_flush"
    /\ \E fk \in BOOLEAN :
        LET q == req[r]
            res == VoteFlushResult(q, votes, users, posts, fk, nextVoteId)
        IN /\ votes' = res.votes
           /\ IF res.err = ""
              THEN /\ req' = [req EXCEPT ![r].pc = "vote_refresh",
                                         ![r].ex = 0, ![r].exType = FALSE]
                   /\ \/ hist' = HistAfter(hist, votes, res.votes)
                      \/ /\ q.action = "added"
                         /\ hist' = HistOfCall(q, votes, nextVoteId)
              ELSE /\ Finish(r, res.err, VoteHttp(res.err))
                   /\ hist' = hist
           /\ nextVoteId' = IF q.action = "added" /\ res.err = ""
                            THEN nextVoteId + 1 ELSE nextVoteId
    /\ UNCHANGED <<users, posts, comments, nextUserId, nextPostId, nextCommentId>>

\* post.to_dict() after the commit expired the instance: the row is reloaded
VoteRefresh(r) ==
    /\ req[r].pc = "vote_refresh"
    /\ IF PostExists(posts, req[r].post)
       THEN req' = [req EXCEPT ![r].pc = "vote_ups"]
       ELSE Finish(r, ObjectDeletedError, VoteHttp(ObjectDeletedError))
    /\ UNCHANGED <<users, posts, votes, comments, nextUserId, nextPostId,
                   nextVoteId, nextCommentId, hist>>

\* 'upvotes': self.upvotes
VoteCountUps(r) ==
    /\ req[r].pc = "vote_ups"
    /\ req' = [req EXCEPT ![r].pc = "vote_downs",
                          ![r].ups = Upvotes(votes, req[r].post)]
    /\ UNCHANGED <<users, posts, votes, comments, nextUserId, nextPostId,
                   nextVoteId, nextCommentId, hist>>

\* 'downvotes': self.downvotes
VoteCountDowns(r) ==
    /\ req[r].pc = "vote_downs"
    /\ req' = [req EXCEPT ![r].pc = "vote_score_ups",
                          ![r].downs = Downvotes(votes, req[r].post)]
    /\ UNCHANGED <<users, posts, votes, comments, nextUserId, nextPostId,
                   nextVoteId, nextCommentId, hist>>

\* 'vote_score': self.vote_score, its self.upvotes
VoteScoreUps(r) ==
    /\ req[r].pc = "vote_score_ups"
    /\ req' = [req EXCEPT ![r].pc = "vote_score_downs",
                          ![r].score = Upvotes(votes, req[r].post)]
    /\ UNCHANGED <<users, posts, votes, comments, nextUserId, nextPostId,
                   nextVoteId, nextCommentId, hist>>

\* 'vote_score': self.vote_score, minus its self.downvotes; return post_dict, None
VoteScoreDowns(r) ==
    /\ req[r].pc = "vote_score_downs"
    /\ req' = [req EXCEPT ![r].pc = "done", ![r].status = VoteHttp(""),
                          ![r].score = req[r].score - Downvotes(votes, req[r].post)]
    /\ UNCHANGED <<users, posts, votes, comments, nextUserId, nextPostId,
                   nextVoteId, nextCommentId, hist>>

\* post.to_dict() with no commit of another request between its queries
VoteReturn(r) ==
    /\ req[r].pc = "vote_refresh"
    /\ IF PostExists(posts, req[r].post)
       THEN req' = [req EXCEPT ![r].pc = "done", ![r].status = VoteHttp(""),
                               ![r].ups = Upvotes(votes, req[r].post),
                               ![r].downs = Downvotes(votes, req[r].post),
                               ![r].score = VoteScore(votes, req[r].post)]
       ELSE Finish(r, ObjectDeletedError, VoteHttp(ObjectDeletedError))
    /\ UNCHANGED <<users, posts, votes, comments, nextUserId, nextPostId,
                   nextVoteId, nextCommentId, hist>>

\* get_user_vote_on_post filtering by the post alone
GetUserVoteOnPostAnyUser(vs, u, p) == {v \in vs : v.post_id = p}

\* VoteService.get_user_vote_on_post: the rows .first() can return
GetUserVoteOnPost(vs, u, p) == {v \in vs : v.user_id = u /\ v.post_id = p}

\* 'upvote' if vote.vote_type else 'downvote'
VoteTypeName(vt) == IF vt THEN "upvote" ELSE "downvote"

\* routes.get_vote_status behind jwt_required_custom
VoteStatus(r, tok, p) ==
    LET u == JwtRequiredCustom(tok, users).user IN
    /\ req[r].pc = "idle"
    /\ JwtRequiredCustom(tok, users).status = 0
    /\ LET q == [IdleReq EXCEPT !.op = "vote_status", !.pc = "done", !.user = u,
                                !.post = p, !.tok = tok, !.status = 200]
           found == GetUserVoteOnPost(votes, u, p)
       IN IF found = {}
          THEN req' = [req EXCEPT ![r] = q]
          ELSE \E v \in found :
                  req' = [req EXCEPT ![r] = [q EXCEPT !.has_voted = TRUE,
                                                      !.vote = VoteTypeName(v.vote_type)]]
    /\ UNCHANGED <<users, posts, votes, comments, nextUserId, nextPostId,
                   nextVoteId, nextCommentId, hist>>

\* the response is sent and the worker takes the next request
Respond(r) ==
    /\ req[r].pc = "done"
    /\ req' = [req EXCEPT ![r] = IdleReq]
    /\ UNCHANGED <<users, posts, votes, comments, nextUserId, nextPostId,
                   nextVoteId, nextCommentId, hist>>

\* ------------------------------------------------------------ store failures
\* the last except clause of a service method letting the exception go on
ServiceExceptReraise(e) == [crossed |-> TRUE, err |-> e]

\* except Exception as e: db.session.rollback(); return None, str(e)
ServiceExcept(e) == [crossed |-> FALSE, err |-> e]

\* the positions at which the next statement of a request is a statement on
\* the store inside the try block of a service method
ServicePcs ==
    {"vote_flush", "vote_refresh", "delete_flush", "update_flush",
     "comment_insert", "register_flush"}

\* the status the route of the operation gives the pair its service returned
RouteHttp(op, err) ==
    CASE op = "vote" -> VoteHttp(err)
      [] op = "delete_post" -> DeleteHttp(err)
      [] op = "update_post" -> UpdateHttp(err)
      [] op = "create_comment" -> CommentHttp(err)
      [] op = "register" -> RegisterHttp(err)
      [] OTHER -> 500

\* the store fails the statement request r is about to run (a lock timeout,
\* a lost connection): the service's except clause rolls back and returns,
\* the route answers; an exception that left the service would be caught by
\* the route's own except clause
StoreFailure(r) ==
    /\ req[r].pc \in ServicePcs
    /\ LET out == ServiceExcept(OperationalError)
       IN req' = [req EXCEPT ![r].pc = "done",
                             ![r].err = out.err,
                             ![r].crossed = out.crossed,
                             ![r].ex = 0, ![r].exType = FALSE,
                             ![r].loaded = NoPost,
                             ![r].status = IF out.crossed THEN 500
                                           ELSE RouteHttp(req[r].op, out.err)]
    /\ UNCHANGED <<users, posts, votes, comments, nextUserId, nextPostId,
                   nextVoteId, nextCommentId, hist>>

\* ------------------------------------------------------------ authentication
\* the routes behind jwt_required_custom and behind jwt_optional_custom
ProtectedEndpoints ==
    {"create_post", "update_post", "delete_post", "vote", "vote_status",
     "create_comment", "me"}

OptionalEndpoints == {"list_posts", "get_post", "search_posts", "get_post_comments"}

\* a request to a protected route that jwt_required_custom answers itself
JwtRejects(r, ep, tok) ==
    /\ req[r].pc = "idle"
    /\ ep \in ProtectedEndpoints
    /\ Issued(tok)
    /\ LET auth == JwtRequiredCustom(tok, users)
       IN /\ auth.status # 0
          /\ req' = [req EXCEPT ![r] = [IdleReq EXCEPT !.op = ep, !.pc = "done",
                                                       !.tok = tok,
                                                       !.err = auth.err,
                                                       !.status = auth.status]]
    /\ UNCHANGED <<users, posts, votes, comments, nextUserId, nextPostId,
                   nextVoteId, nextCommentId, hist>>

\* routes.get_current_user_info once jwt_required_custom let the request in
GetCurrentUserInfo(r, tok) ==
    /\ req[r].pc = "idle"
    /\ Issued(tok)
    /\ LET auth == JwtRequiredCustom(tok, users)
       IN /\ auth.status = 0
          /\ \E x \in users :
                /\ x.id = auth.user
                /\ req' = [req EXCEPT ![r] = [IdleReq EXCEPT !.op = "me", !.pc = "done",
                                                             !.tok = tok,
                                                             !.user = x.id,
                                                             !.username = x.username,
                                                             !.email = x.email,
                                                             !.status = 200]]
    /\ UNCHANGED <<users, posts, votes, comments, nextUserId, nextPostId,
                   nextVoteId, nextCommentId, hist>>

\* routes.get_post behind jwt_optional_custom
GetPost(r, tok, p) ==
    /\ req[r].pc = "idle"
    /\ Issued(tok)
    /\ LET auth == JwtOptionalCustom(tok, users)
           q == [IdleReq EXCEPT !.op = "get_post", !.pc = "done", !.post = p,
                                !.tok = tok, !.user = auth.user]
           err == GetPostById(posts, p)
       IN IF auth.status # 0
          THEN req' = [req EXCEPT ![r] = [q EXCEPT !.status = auth.status]]
          ELSE IF err # ""
          THEN req' = [req EXCEPT ![r] = [q EXCEPT !.err = err, !.status = 404]]
          ELSE \E x \in posts :
                  /\ x.id = p
                  /\ req' = [req EXCEPT ![r] = [q EXCEPT !.title = x.title,
                                                         !.body = x.body,
                                                         !.status = 200]]
    /\ UNCHANGED <<users, posts, votes, comments, nextUserId, nextPostId,
                   nextVoteId, nextCommentId, hist>>

\* a comment is deactivated in the store; no route does it
DeactivateComment(c) ==
    /\ \E x \in comments : x.id = c /\ x.is_active
    /\ comments' = {IF x.id = c THEN [x EXCEPT !.is_active = FALSE] ELSE x : x \in comments}
    /\ UNCHANGED <<users, posts, votes, nextUserId, nextPostId, nextVoteId,
                   nextCommentId, req, hist>>

\* get_post_comments without the filter on is_active
GetPostCommentsAll(cs, p, page, per_page) ==
    QueryPages({c \in cs : c.post_id = p}, "created_at", "desc", page, per_page)

\* CommentService.get_post_comments: the pages it can return
GetPostComments(cs, p, page, per_page) ==
    QueryPages({c \in cs : c.post_id = p /\ c.is_active}, "created_at", "desc",
               page, per_page)

\* routes.get_post_comments behind jwt_optional_custom, with validated
\* query parameters
ListComments(r, tok, p, page, per_page) ==
    /\ req[r].pc = "idle"
    /\ Issued(tok)
    /\ LET auth == JwtOptionalCustom(tok, users)
           q == [IdleReq EXCEPT !.op = "get_post_comments", !.pc = "done",
                                !.post = p, !.page = page, !.per_page = per_page,
                                !.tok = tok, !.user = auth.user]
       IN IF auth.status # 0
          THEN req' = [req EXCEPT ![r] = [q EXCEPT !.status = auth.status]]
          ELSE \E items \in GetPostComments(comments, p, page, per_page) :
                  req' = [req EXCEPT ![r] = [q EXCEPT !.items = items,
                                                      !.status = 200]]
    /\ UNCHANGED <<users, posts, votes, comments, nextUserId, nextPostId,
                   nextVoteId, nextCommentId, hist>>

\* ------------------------------------------------------------ specifications
Next ==
    \/ Register(FreshText(nextUserId), FreshText(nextUserId), <<"a">>)
    \/ \E u \in UserIds : DeleteUser(u)
    \/ \E u \in UserIds : CreatePost(ValidToken(u), <<"a">>, <<"a", " ">>, <<"A">>, 1)
    \/ \E r \in Reqs, u \in UserIds, p \in PostIds : DeletePostBegin(r, ValidToken(u), p)
    \/ \E r \in Reqs : DeletePostFlush(r)
    \/ \E r \in Reqs, u \in UserIds, p \in PostIds : CommentBegin(r, ValidToken(u), p, <<" ", "a">>)
    \/ \E r \in Reqs : CommentInsert(r, 1)
    \/ \E r \in Reqs, u \in UserIds, p \in PostIds, vt \in BOOLEAN : VoteBegin(r, ValidToken(u), p, vt)
    \/ \E r \in Reqs : VoteFlush(r)
    \/ \E r \in Reqs : VoteReturn(r)
    \/ \E r \in Reqs : Respond(r)

Spec == Init /\ [][Next]_vars

\* the rows of two registrations
SeedUsers ==
    {NewUser(1, FreshText(1), FreshText(1), <<"a">>),
     NewUser(2, FreshText(2), FreshText(2), <<"a">>)}

\* a store the program reaches by two registrations and one create_post
InitCounts ==
    /\ users = SeedUsers
    /\ posts = {NewPost(1, 1, <<"a">>, <<"a", " ">>, <<"A">>, 1)}
    /\ votes = {}
    /\ comments = {}
    /\ nextUserId = 3
    /\ nextPostId = 2
    /\ nextVoteId = 1
    /\ nextCommentId = 1
    /\ req = [r \in Reqs |-> IdleReq]
    /\ hist = NoHist

\* vote calls only, the queries of post.to_dict() taken one by one
NextCounts ==
    \/ \E r \in Reqs, u \in UserIds, p \in PostIds, vt \in BOOLEAN : VoteBegin(r, ValidToken(u), p, vt)
    \/ \E r \in Reqs : VoteFlush(r)
    \/ \E r \in Reqs : VoteRefresh(r)
    \/ \E r \in Reqs : VoteCountUps(r)
    \/ \E r \in Reqs : VoteCountDowns(r)
    \/ \E r \in Reqs : VoteScoreUps(r)
    \/ \E r \in Reqs : VoteScoreDowns(r)
    \/ \E r \in Reqs : Respond(r)

SpecCounts == InitCounts /\ [][NextCounts]_vars

\* a store the program reaches by two registrations, one create_post, one
\* vote and one comment
InitPosts ==
    /\ users = SeedUsers
    /\ posts = {NewPost(1, 1, <<"a">>, <<"a", " ">>, <<"A">>, 1)}
    /\ votes = {[id |-> 1, user_id |-> 2, post_id |-> 1, vote_type |-> TRUE]}
    /\ comments = {NewComment(1, <<"a">>, 2, 1, 1)}
    /\ nextUserId = 3
    /\ nextPostId = 2
    /\ nextVoteId = 2
    /\ nextCommentId = 2
    /\ req = [r \in Reqs |-> IdleReq]
    /\ hist = NoHist

\* titles and bodies that pass PostUpdateSchema, and the omitted field
UpdateInputs == {None, <<" ">>, <<" ", "A">>, <<"_">>}

\* PUT and DELETE requests on posts
NextPosts ==
    \/ \E r \in Reqs, u \in UserIds, p \in PostIds, title \in UpdateInputs,
          body \in UpdateInputs : UpdateBegin(r, ValidToken(u), p, title, body)
    \/ \E r \in Reqs : UpdateFlush(r)
    \/ \E r \in Reqs : UpdateReturn(r)
    \/ \E r \in Reqs, u \in UserIds, p \in PostIds : DeletePostBegin(r, ValidToken(u), p)
    \/ \E r \in Reqs : DeletePostFlush(r)
    \/ \E r \in Reqs : Respond(r)

SpecPosts == InitPosts /\ [][NextPosts]_vars

\* the texts create_post can have stored for a title or a body
StoredTexts == {Strip(t) : t \in {x \in Texts : Len(x) >= 1}}

\* a store with one post of user 1
InitUpdate ==
    /\ users = SeedUsers
    /\ \E title \in StoredTexts, body \in StoredTexts :
          posts = {NewPost(1, 1, title, body, <<"A">>, 1)}
    /\ votes = {}
    /\ comments = {}
    /\ nextUserId = 3
    /\ nextPostId = 2
    /\ nextVoteId = 1
    /\ nextCommentId = 1
    /\ req = [r \in Reqs |-> IdleReq]
    /\ hist = NoHist

\* PostService.update_post(post_id, title, body, author_id) run from its
\* first line to its return with no other request in between
UpdatePostCall(r, p, title, body, author_id) ==
    /\ req[r].pc = "idle"
    /\ LET q == [IdleReq EXCEPT !.op = "update_post", !.user = author_id, !.post = p,
                                !.title = title, !.body = body, !.pc = "done"]
       IN IF PostExists(posts, p)
          THEN /\ posts' = {IF x.id = p THEN UpdatePostResult(x, title, body, author_id)
                                     ELSE x : x \in posts}
               /\ req' = [req EXCEPT ![r] = q]
          ELSE /\ posts' = posts
               /\ req' = [req EXCEPT ![r] = [q EXCEPT !.err = PostNotFound]]
    /\ UNCHANGED <<users, votes, comments, nextUserId, nextPostId,
                   nextVoteId, nextCommentId, hist>>

\* calls of update_post with every title and body, omitted and empty included
NextUpdate ==
    \/ \E p \in PostIds, title \in Texts \cup {None}, body \in Texts \cup {None},
          author_id \in {0, 1} : UpdatePostCall(1, p, title, body, author_id)

SpecUpdate == InitUpdate /\ [][NextUpdate]_vars

\* titles and bodies of the posts that are listed and searched
ListedTitles == {<<"a">>, <<"A", "_">>, <<"_">>}

ListedBodies == {<<"A">>, <<"_", "a">>}

\* votes that users 1 and 2 can have cast on the listed posts
ListedVotes(n) ==
    {v \in {[id |-> 1, user_id |-> 2, post_id |-> 1, vote_type |-> TRUE],
            [id |-> 2, user_id |-> 1, post_id |-> 2, vote_type |-> FALSE]} :
        v.post_id <= n}

\* a store with up to MaxListed posts of user 1, created in any order of the
\* clock, and some votes on them
InitSearch ==
    /\ users = SeedUsers
    /\ \E n \in 0..MaxListed :
          /\ \E f \in [1..n -> ListedTitles \X ListedBodies \X Times] :
                posts = {NewPost(i, 1, f[i][1], f[i][2], <<"A">>, f[i][3]) : i \in 1..n}
          /\ votes \in SUBSET ListedVotes(n)
          /\ nextPostId = n + 1
    /\ comments = {}
    /\ nextUserId = 3
    /\ nextVoteId = 3
    /\ nextCommentId = 1
    /\ req = [r \in Reqs |-> IdleReq]
    /\ hist = NoHist

\* the values PostSearchSchema lets through for sort_by and order
SortBys == {"published_at", "title", "vote_score"}

Orders == {"asc", "desc"}

\* GET /api/posts and GET /api/search with every validated parameter
NextSearch ==
    \/ \E page \in 1..MaxPage, per_page \in 1..MaxPage, sort_by \in SortBys,
          order \in Orders : ListPosts(1, NoToken, page, per_page, sort_by, order)
    \/ \E text \in Texts, page \in 1..MaxPage, per_page \in 1..MaxPage,
          sort_by \in SortBys, order \in Orders :
            SearchRequest(1, NoToken, text, page, per_page, sort_by, order)

SpecSearch == InitSearch /\ [][NextSearch]_vars

\* usernames, emails and passwords that pass the registration schema
RegNames == {<<"a">>, <<"A">>}

RegEmails == {<<"a">>, <<"_">>}

Passwords == {<<"a">>, <<"_">>}

\* registrations and logins, from the empty store
NextUsers ==
    \/ \E r \in Reqs, username \in RegNames, email \in RegEmails, password \in Passwords :
          RegisterBegin(r, username, email, password)
    \/ \E r \in Reqs : RegisterFlush(r)
    \/ \E r \in Reqs, username \in RegNames \cup {<<"_">>}, password \in Passwords :
          Login(r, username, password)
    \/ \E u \in UserIds : DeactivateUser(u)
    \/ \E r \in Reqs : Respond(r)

SpecUsers == Init /\ [][NextUsers]_vars

\* requests with every kind of token to the protected and the optional
\* routes, while users are deactivated and deleted
NextAuth ==
    \/ \E u \in UserIds : DeactivateUser(u)
    \/ \E u \in UserIds : DeleteUser(u)
    \/ \E r \in Reqs, ep \in ProtectedEndpoints, tok \in Tokens : JwtRejects(r, ep, tok)
    \/ \E r \in Reqs, tok \in Tokens : GetCurrentUserInfo(r, tok)
    \/ \E r \in Reqs, u \in UserIds, p \in PostIds : DeletePostBegin(r, ValidToken(u), p)
    \/ \E r \in Reqs : DeletePostFlush(r)
    \/ \E r \in Reqs, tok \in Tokens : ListPosts(r, tok, 1, 1, "published_at", "desc")
    \/ \E r \in Reqs, tok \in Tokens :
          SearchRequest(r, tok, <<"a">>, 1, 1, "published_at", "desc")
    \/ \E r \in Reqs, tok \in Tokens, p \in PostIds : GetPost(r, tok, p)
    \/ \E r \in Reqs, tok \in Tokens, p \in PostIds : ListComments(r, tok, p, 1, 1)
    \/ \E r \in Reqs : Respond(r)

SpecAuth == InitPosts /\ [][NextAuth]_vars

\* contents that pass CommentCreateSchema
CommentInputs == {s \in Texts : Len(s) >= 1}

\* comment calls with every content, while posts and users are deleted
NextComments ==
    \/ \E r \in Reqs, u \in UserIds, p \in PostIds, content \in CommentInputs :
          CommentBegin(r, ValidToken(u), p, content)
    \/ \E r \in Reqs, at \in Times : CommentInsert(r, at)
    \/ \E r \in Reqs, u \in UserIds, p \in PostIds : DeletePostBegin(r, ValidToken(u), p)
    \/ \E r \in Reqs : DeletePostFlush(r)
    \/ \E u \in UserIds : DeleteUser(u)
    \/ \E r \in Reqs : Respond(r)

SpecComments == InitCounts /\ [][NextComments]_vars

\* votes, updates, deletes and comments on one post by its author and
\* another user, every statement of which the store may fail
NextFaults ==
    \/ \E r \in Reqs, u \in UserIds, p \in PostIds, vt \in BOOLEAN : VoteBegin(r, ValidToken(u), p, vt)
    \/ \E r \in Reqs : VoteFlush(r)
    \/ \E r \in Reqs : VoteReturn(r)
    \/ \E r \in Reqs, u \in UserIds, p \in PostIds : DeletePostBegin(r, ValidToken(u), p)
    \/ \E r \in Reqs : DeletePostFlush(r)
    \/ \E r \in Reqs, u \in UserIds, p \in PostIds :
          UpdateBegin(r, ValidToken(u), p, <<"A">>, None)
    \/ \E r \in Reqs : UpdateFlush(r)
    \/ \E r \in Reqs : UpdateReturn(r)
    \/ \E r \in Reqs, u \in UserIds, p \in PostIds : CommentBegin(r, ValidToken(u), p, <<"a">>)
    \/ \E r \in Reqs : CommentInsert(r, 1)
    \/ \E r \in Reqs : StoreFailure(r)
    \/ \E r \in Reqs : Respond(r)

SpecFaults == InitCounts /\ [][NextFaults]_vars

\* vote calls and vote-status requests of two users on one post
NextStatus ==
    \/ \E r \in Reqs, u \in UserIds, p \in PostIds, vt \in BOOLEAN : VoteBegin(r, ValidToken(u), p, vt)
    \/ \E r \in Reqs : VoteFlush(r)
    \/ \E r \in Reqs : VoteReturn(r)
    \/ \E r \in Reqs, u \in UserIds, p \in PostIds : VoteStatus(r, ValidToken(u), p)
    \/ \E r \in Reqs : Respond(r)

SpecStatus == InitCounts /\ [][NextStatus]_vars

\* the token create_access_token_for_user put in the response of request s,
\* no token when the response carries none
HeldToken(s) ==
    IF req[s].pc = "done" /\ req[s].token # 0 THEN ValidToken(req[s].token)
    ELSE NoToken

\* registrations and logins, and protected requests made with the token a
\* response of another request carries
NextTokens ==
    \/ \E r \in Reqs, username \in RegNames, email \in RegEmails :
          RegisterBegin(r, username, email, <<"a">>)
    \/ \E r \in Reqs : RegisterFlush(r)
    \/ \E r \in Reqs, username \in RegNames : Login(r, username, <<"a">>)
    \/ \E r \in Reqs, s \in Reqs : GetCurrentUserInfo(r, HeldToken(s))
    \/ \E r \in Reqs, s \in Reqs :
          CreatePostRequest(r, HeldToken(s), <<"a">>, <<"a">>, <<"A">>, 1, TRUE)
    \/ \E r \in Reqs, s \in Reqs, p \in PostIds :
          VoteBegin(r, HeldToken(s), p, TRUE)
    \/ \E r \in Reqs : VoteFlush(r)
    \/ \E r \in Reqs : VoteReturn(r)
    \/ \E r \in Reqs, s \in Reqs, p \in PostIds :
          CommentBegin(r, HeldToken(s), p, <<"a">>)
    \/ \E r \in Reqs : CommentInsert(r, 1)
    \/ \E r \in Reqs : Respond(r)

SpecTokens == Init /\ [][NextTokens]_vars

\* PUT, DELETE and POST /api/posts by both users, on either kind of store
NextIds ==
    \/ \E r \in Reqs, u \in UserIds, p \in PostIds, title \in {<<"A">>, <<" ">>} :
          UpdateBegin(r, ValidToken(u), p, title, None)
    \/ \E r \in Reqs : UpdateFlush(r)
    \/ \E r \in Reqs : UpdateReturn(r)
    \/ \E r \in Reqs, u \in UserIds, p \in PostIds : DeletePostBegin(r, ValidToken(u), p)
    \/ \E r \in Reqs : DeletePostFlush(r)
    \/ \E r \in Reqs, u \in UserIds, rowid \in BOOLEAN :
          CreatePostRequest(r, ValidToken(u), <<"_">>, <<"a">>, <<"A">>, 1, rowid)
    \/ \E r \in Reqs : Respond(r)

SpecIds == InitPosts /\ [][NextIds]_vars

\* the posts whose comments are listed
ListedPostIds == 1..2

\* a store with two posts of user 1 and up to MaxListed + 1 comments of
\* user 2 on them, written in any order of the clock
InitCommentList ==
    /\ users = SeedUsers
    /\ posts = {NewPost(i, 1, <<"a">>, <<"a">>, <<"A">>, 1) : i \in ListedPostIds}
    /\ votes = {}
    /\ \E n \in 0..(MaxListed + 1) :
          /\ \E f \in [1..n -> ListedPostIds \X Times] :
                comments = {NewComment(i, <<"a">>, 2, f[i][1], f[i][2]) : i \in 1..n}
          /\ nextCommentId = n + 1
    /\ nextUserId = 3
    /\ nextPostId = 3
    /\ nextVoteId = 1
    /\ req = [r \in Reqs |-> IdleReq]
    /\ hist = NoHist

\* GET /api/posts/{id}/comments with every validated parameter, while
\* comments are deactivated
NextCommentList ==
    \/ \E c \in 1..(MaxListed + 1) : DeactivateComment(c)
    \/ \E p \in ListedPostIds, page \in 1..MaxPage, per_page \in 1..MaxPage :
          ListComments(1, NoToken, p, page, per_page)

SpecCommentList == InitCommentList /\ [][NextCommentList]_vars

\* a store with two posts of user 1 and a comment of user 2, no vote yet
InitFrame ==
    /\ users = SeedUsers
    /\ posts = {NewPost(i, 1, <<"a">>, <<"a">>, <<"A">>, 1) : i \in ListedPostIds}
    /\ votes = {}
    /\ comments = {NewComment(1, <<"a">>, 2, 1, 1)}
    /\ nextUserId = 3
    /\ nextPostId = 3
    /\ nextVoteId = 1
    /\ nextCommentId = 2
    /\ req = [r \in Reqs |-> IdleReq]
    /\ hist = NoHist

\* vote calls of two users on two posts, the store failing some of them
NextFrame ==
    \/ \E r \in Reqs, u \in UserIds, p \in ListedPostIds, vt \in BOOLEAN :
          VoteBegin(r, ValidToken(u), p, vt)
    \/ \E r \in Reqs : VoteFlush(r)
    \/ \E r \in Reqs : VoteReturn(r)
    \/ \E r \in Reqs : StoreFailure(r)
    \/ \E r \in Reqs : Respond(r)

SpecFrame == InitFrame /\ [][NextFrame]_vars

\* ------------------------------------------------------------ properties
\* the six rows of the vote table: <<state, wants_upvote, state after, action>>
TransitionTable ==
    {<<"no-vote", TRUE, "upvoted", "added">>,
     <<"no-vote", FALSE, "downvoted", "added">>,
     <<"upvoted", TRUE, "no-vote", "removed">>,
     <<"upvoted", FALSE, "downvoted", "updated">>,
     <<"downvoted", FALSE, "no-vote", "removed">>,
     <<"downvoted", TRUE, "upvoted", "updated">>}

\* request r commits its vote in this step
VoteCommits(r) == req[r].pc = "vote_flush" /\ req'[r].pc = "vote_refresh"

\* the row request r read for its (user, post) is still what the store holds
ReadIsCurrent(r) ==
    IF req[r].ex = 0
    THEN VotesOf(votes, req[r].user, req[r].post) = {}
    ELSE [id |-> req[r].ex, user_id |-> req[r].user, post_id |-> req[r].post,
          vote_type |-> req[r].exType] \in votes

\* the step of r moves the (user, post) state by a row of the table
MovesByTable(r) ==
    <<VoteState(votes, req[r].user, req[r].post), req[r].vt,
      VoteState(votes', req[r].user, req[r].post), req'[r].action>> \in TransitionTable

\* C1: a vote call that commits on the (user, post) state it read moves that
\* state by one of the six rows of the table and reports the row's action
C1_VoteFollowsTable ==
    [][\A r \in Reqs : (VoteCommits(r) /\ ReadIsCurrent(r)) => MovesByTable(r)]_vars

\* a vote call has committed an update of an existing row
C1_Witness ==
    \E r \in Reqs : /\ req[r].pc = "vote_refresh"
                    /\ req[r].action = "updated"
                    /\ VotesOf(votes, req[r].user, req[r].post) # {}

\* C2: in every reachable state the votes table holds at most one row per
\* (user_id, post_id), whatever the interleaving of the vote calls
C2_OneVotePerPair ==
    \A u \in UserIds, p \in PostIds : Cardinality(VotesOf(votes, u, p)) <= 1

\* two vote calls of one user on one post both read no row, and one has
\* inserted its row while the other's insert is still pending
C2_Witness ==
    \E r \in Reqs : /\ req[r].pc = "vote_flush"
                    /\ req[r].action = "added"
                    /\ VotesOf(votes, req[r].user, req[r].post) # {}

\* C3: every vote call on a live post by a live user ends as in a serial
\* run: it commits, and it applies the table row of the state its (user,
\* post) is in when it commits
C3_VotesSerialize ==
    [][\A r \in Reqs :
          (/\ req[r].pc = "vote_flush"
           /\ req'[r].pc # "vote_flush"
           /\ PostExists(posts, req[r].post)
           /\ UserExists(users, req[r].user))
          => (VoteCommits(r) /\ MovesByTable(r))]_vars

\* C4: a vote call whose insert meets a row of its (user, post) ends with
\* the voting-conflict failure and HTTP 400, and leaves the rows as they were
C4_ConflictIsFailure ==
    [][\A r \in Reqs :
          (/\ req[r].pc = "vote_flush"
           /\ req[r].action = "added"
           /\ VotesOf(votes, req[r].user, req[r].post) # {}
           /\ req'[r] # req[r])
          => (/\ req'[r].pc = "done"
              /\ req'[r].err = VotingConflict
              /\ req'[r].status = 400
              /\ votes' = votes)]_vars

\* a vote call has ended in the conflict while the pair's row is in the store
C4_Witness ==
    \E r \in Reqs : /\ req[r].pc = "done"
                    /\ req[r].err = VotingConflict
                    /\ UserExists(users, req[r].user)
                    /\ PostExists(posts, req[r].post)
                    /\ VotesOf(votes, req[r].user, req[r].post) # {}

\* request r is the call that follows the remembered call: same user and
\* post, and it read the row that call added
FollowsHist(r) ==
    /\ hist # NoHist
    /\ hist.user = req[r].user
    /\ hist.post = req[r].post
    /\ req[r].ex = hist.row

\* the toggle of r restores the pair and the counts of the remembered call
ToggleRestores(r) ==
    /\ VotesOf(votes', req[r].user, req[r].post) = {}
    /\ Upvotes(votes', req[r].post) = hist.ups0
    /\ Downvotes(votes', req[r].post) = hist.downs0

\* C5 as stated: after a vote of u on p from the no-vote state, the next vote
\* call of u on p with the same vote_type leaves no row for (u, p) and the
\* post's counts as they were before the first call
C5_ToggleRestoresCounts ==
    [][\A r \in Reqs :
          (VoteCommits(r) /\ FollowsHist(r) /\ hist.vt = req[r].vt)
          => ToggleRestores(r)]_vars

\* C5 amended: the same, when no other vote row on p has changed in between
C5_ToggleRestoresCountsAlone ==
    [][\A r \in Reqs :
          (VoteCommits(r) /\ FollowsHist(r) /\ hist.vt = req[r].vt /\ hist.clean)
          => ToggleRestores(r)]_vars

\* a second vote of the same type has removed the row of its pair while
\* another user's vote stands on the post
C5_Witness ==
    \E r \in Reqs : /\ req[r].pc = "vote_refresh"
                    /\ req[r].action = "removed"
                    /\ VotesOf(votes, req[r].user, req[r].post) = {}
                    /\ OtherRows(votes, req[r].user, req[r].post) # {}
                    /\ hist = NoHist

\* C6: an upvote from the no-vote state raises the net score by 1; the
\* downvote of the same user that follows it, no other vote row on the post
\* having changed in between, lowers the score by 2, to one below its value
\* before the upvote, with upvotes as before and downvotes one higher
C6_UpThenDownScore ==
    [][\A r \in Reqs :
          /\ (VoteCommits(r) /\ ReadIsCurrent(r) /\ req[r].action = "added" /\ req[r].vt)
             => VoteScore(votes', req[r].post) = VoteScore(votes, req[r].post) + 1
          /\ (VoteCommits(r) /\ FollowsHist(r) /\ hist.vt /\ ~req[r].vt /\ hist.clean)
             => /\ VoteScore(votes', req[r].post) = VoteScore(votes, req[r].post) - 2
                /\ VoteScore(votes', req[r].post) = hist.ups0 - hist.downs0 - 1
                /\ Upvotes(votes', req[r].post) = hist.ups0
                /\ Downvotes(votes', req[r].post) = hist.downs0 + 1]_vars

\* a downvote has replaced the upvote of its user on a post, whose score is -1
C6_Witness ==
    \E r \in Reqs : /\ req[r].pc = "vote_refresh"
                    /\ req[r].action = "updated"
                    /\ ~req[r].vt
                    /\ VoteScore(votes, req[r].post) = -1

\* C7: a vote call that finds no post with its post_id ends with 'Post not
\* found' and HTTP 404, and the votes table is as it was
C7_VoteOnMissingPost ==
    [][\A r \in Reqs :
          (/\ req[r].pc = "idle"
           /\ req'[r].op = "vote"
           /\ \A x \in posts : x.id # req'[r].post)
          => (/\ req'[r].pc = "done"
              /\ req'[r].err = PostNotFound
              /\ req'[r].status = 404
              /\ votes' = votes)]_vars

\* a vote call has ended with "Post not found" after a post had been created
C7_Witness ==
    \E r \in Reqs : /\ req[r].op = "vote"
                    /\ req[r].pc = "done"
                    /\ req[r].err = PostNotFound
                    /\ nextPostId > 1

\* C8: the counts a successful vote call returns satisfy vote_score =
\* upvotes - downvotes, and in every state the upvote and downvote counts of
\* a post are the numbers of users in the upvoted and the downvoted state
C8_ReturnedCounts ==
    /\ \A r \in Reqs :
          (req[r].op = "vote" /\ req[r].pc = "done" /\ req[r].err = "")
          => req[r].score = req[r].ups - req[r].downs
    /\ \A p \in PostIds :
          /\ Upvotes(votes, p)
               = Cardinality({u \in UserIds : VoteState(votes, u, p) = "upvoted"})
          /\ Downvotes(votes, p)
               = Cardinality({u \in UserIds : VoteState(votes, u, p) = "downvoted"})

\* C9: when delete_post commits, the post is absent, get_post_by_id answers
\* 'Post not found', and no vote and no comment of the post is left
C9_DeletePostCascades ==
    [][\A r \in Reqs :
          (req[r].pc = "delete_flush" /\ req'[r].pc = "done")
          => (/\ req'[r].err = ""
              /\ req'[r].status = 200
              /\ ~PostExists(posts', req[r].post)
              /\ GetPostById(posts', req[r].post) = PostNotFound
              /\ \A v \in votes' : v.post_id # req[r].post
              /\ \A c \in comments' : c.post_id # req[r].post)]_vars

\* a delete_post has succeeded on a post that had votes and a comment
C9_Witness ==
    \E r \in Reqs : /\ req[r].op = "delete_post"
                    /\ req[r].pc = "done"
                    /\ req[r].err = ""
                    /\ nextVoteId > 2
                    /\ nextCommentId > 1
                    /\ votes = {}
                    /\ comments = {}

\* C10: the step that deletes user u leaves no post, vote or comment of u,
\* and no vote or comment on a post that was u's
C10_DeleteUserCascades ==
    [][\A u \in UserIds :
          (UserExists(users, u) /\ ~UserExists(users', u))
          => (/\ \A x \in posts' : x.author_id # u
              /\ \A v \in votes' : v.user_id # u
              /\ \A c \in comments' : c.author_id # u
              /\ \A x \in posts : x.author_id = u =>
                    /\ \A v \in votes' : v.post_id # x.id
                    /\ \A c \in comments' : c.post_id # x.id)]_vars

\* user 1, who had registered, is gone, and so is every post, vote and
\* comment that had been made
C10_Witness ==
    /\ ~UserExists(users, 1)
    /\ UserExists(users, 2)
    /\ nextPostId > 1
    /\ nextVoteId > 2
    /\ nextCommentId > 1
    /\ posts = {}
    /\ votes = {}
    /\ comments = {}
    /\ \A r \in Reqs : req[r].pc = "idle"

\* request r starts a PUT or a DELETE on a post that is in the store
StartsOnPost(r) ==
    /\ req[r].pc = "idle"
    /\ req'[r].op \in {"update_post", "delete_post"}
    /\ \E x \in posts : x.id = req'[r].post

\* C11: a PUT or DELETE on a post by a user who is not its author ends with
\* HTTP 403 and leaves posts, votes and comments as they were; the author's
\* request is let through, its write on the post that is still in the store
\* takes effect (the supplied title and body that differ from the ones the
\* request read are stored, or the post is gone) and it ends with HTTP 200
C11_AuthorOnly ==
    [][\A r \in Reqs :
          /\ (StartsOnPost(r) /\ \E x \in posts : x.id = req'[r].post /\ x.author_id # req'[r].user)
             => (/\ req'[r].pc = "done"
                 /\ req'[r].status = 403
                 /\ posts' = posts /\ votes' = votes /\ comments' = comments)
          /\ (StartsOnPost(r) /\ \E x \in posts : x.id = req'[r].post /\ x.author_id = req'[r].user)
             => req'[r].pc \in {"update_flush", "delete_flush"}
          /\ (req[r].pc = "update_flush" /\ req'[r] # req[r] /\ PostExists(posts, req[r].post))
             => (/\ req'[r].pc = "update_return"
                 /\ (Truthy(req[r].title) /\ Strip(req[r].title) # req[r].loaded.title)
                    => PostRow(posts', req[r].post).title = Strip(req[r].title)
                 /\ (Truthy(req[r].body) /\ Strip(req[r].body) # req[r].loaded.body)
                    => PostRow(posts', req[r].post).body = Strip(req[r].body))
          /\ (req[r].pc = "update_return" /\ req'[r] # req[r] /\ PostExists(posts, req[r].post))
             => (req'[r].status = 200 /\ req'[r].err = "")
          /\ (req[r].pc = "delete_flush" /\ req'[r] # req[r])
             => (req'[r].status = 200 /\ ~PostExists(posts', req[r].post))]_vars

\* a PUT of user 2 on user 1's post has ended with 403 and a PUT of user 1
\* has ended with 200, the post carrying the title it supplied
C11_Witness ==
    \E r, s \in Reqs :
        /\ req[r].op = "update_post" /\ req[r].pc = "done"
        /\ req[r].user = 2 /\ req[r].status = 403
        /\ req[s].op = "update_post" /\ req[s].pc = "done"
        /\ req[s].user = 1 /\ req[s].status = 200
        /\ req[s].title = <<" ", "A">>
        /\ \E x \in posts : x.id = req[s].post /\ x.title = <<"A">> /\ x.author_id = 1
        /\ votes # {} /\ comments # {}

\* C12: update_post stores the trimmed title and body that are supplied with
\* a non-empty value and leaves a field that is omitted or empty as it was;
\* author, published_at and is_published are never changed
C12_PartialUpdate ==
    [][\A r \in Reqs, x \in posts :
          (req[r].pc = "idle" /\ req'[r].op = "update_post" /\ req'[r].err = ""
           /\ x.id = req'[r].post)
          => \E y \in posts' :
                /\ y.id = x.id
                /\ y.title = IF req'[r].title \in {None, <<>>} THEN x.title
                              ELSE Strip(req'[r].title)
                /\ y.body = IF req'[r].body \in {None, <<>>} THEN x.body
                             ELSE Strip(req'[r].body)
                /\ y.author = x.author
                /\ y.published_at = x.published_at
                /\ y.is_published = x.is_published]_vars

\* a call with a title and an empty body has changed the title of a post and
\* left its body
C12_Witness ==
    \E r \in Reqs, x \in posts :
        /\ req[r].op = "update_post" /\ req[r].pc = "done" /\ req[r].err = ""
        /\ x.id = req[r].post
        /\ req[r].title = <<"_", " ">> /\ req[r].body = <<>>
        /\ x.title = <<"_">> /\ x.body = <<"a", "A">>

\* the sequence of ids names published posts only, ordered by the sort key
\* (for vote_score: upvotes minus downvotes) in the direction of order
ListedInOrder(items, sort_by, order) ==
    /\ \A i \in 1..Len(items) : \E x \in posts : x.id = items[i] /\ x.is_published
    /\ \A i, j \in 1..Len(items) :
          i < j => LET lo == IF order = "desc" THEN items[j] ELSE items[i]
                       hi == IF order = "desc" THEN items[i] ELSE items[j]
                   IN IF sort_by = "title"
                      THEN TextLeq(PostRow(posts, lo).title, PostRow(posts, hi).title)
                      ELSE IF sort_by = "vote_score"
                      THEN VoteScore(votes, lo) <= VoteScore(votes, hi)
                      ELSE PostRow(posts, lo).published_at <= PostRow(posts, hi).published_at

\* C13: a list request succeeds for every sort_by of {published_at, title,
\* vote_score} and every order, and returns published posts only, ordered
\* by the requested key in the requested direction
C13_ListSortsByKey ==
    \A r \in Reqs :
        (req[r].op = "list_posts" /\ req[r].pc = "done")
        => (/\ req[r].err = ""
            /\ req[r].status = 200
            /\ ListedInOrder(req[r].items, req[r].sort_by, req[r].order))

\* C14: a search with an empty or whitespace-only query can return exactly
\* the pages that list() returns for the same page and per_page with the
\* default sort (published_at, desc), and returns one of them
C14_BlankSearchIsList ==
    \A r \in Reqs :
        (req[r].op = "search_posts" /\ req[r].pc = "done" /\ Strip(req[r].q) = <<>>)
        => (/\ req[r].err = ""
            /\ SearchPosts(posts, req[r].q, req[r].page, req[r].per_page)
                  = GetAllPosts(posts, req[r].page, req[r].per_page, "published_at", "desc")
            /\ req[r].items \in GetAllPosts(posts, req[r].page, req[r].per_page,
                                            "published_at", "desc").pages)

\* a search with a whitespace-only query has returned the second page of
\* two posts, the older one
C14_Witness ==
    \E r \in Reqs :
        /\ req[r].op = "search_posts" /\ req[r].pc = "done"
        /\ req[r].q = <<" ">> /\ req[r].page = 2 /\ req[r].per_page = 1
        /\ req[r].sort_by = "title" /\ req[r].order = "asc"
        /\ Cardinality(posts) = 2
        /\ req[r].items = <<1>>
        /\ \E x, y \in posts : x.id = 1 /\ y.id = 2 /\ x.published_at < y.published_at

\* text s contains text t as a substring, letter case ignored
ContainsCI(s, t) ==
    \E i \in 1..(Len(s) - Len(t) + 1) :
        \A k \in 1..Len(t) : Lower(s)[i + k - 1] = Lower(t)[k]

\* C15: a search with a non-blank query returns a page of exactly the
\* published posts whose title or body contains the trimmed query as a
\* case-insensitive substring, ordered by published_at descending whatever
\* sort was requested
C15_SearchIsSubstringMatch ==
    \A r \in Reqs :
        (req[r].op = "search_posts" /\ req[r].pc = "done" /\ Strip(req[r].q) # <<>>)
        => (/\ req[r].err = ""
            /\ req[r].items \in
                  QueryPages({x \in posts : /\ x.is_published
                                            /\ \/ ContainsCI(x.title, Strip(req[r].q))
                                               \/ ContainsCI(x.body, Strip(req[r].q))},
                             "published_at", "desc", req[r].page, req[r].per_page))

\* C16: a registration whose username or email an existing user has ends
\* with 'Username already exists' or 'Email already exists', naming a column
\* that does collide, and HTTP 400, adds no user and issues no token; in
\* every state the usernames and the emails of the users are pairwise distinct
C16_UniqueRegistration ==
    /\ [](\A x, y \in users : (x.username = y.username \/ x.email = y.email) => x = y)
    /\ [][\A r \in Reqs :
             LET nameTaken == \E x \in users : x.username = Strip(req[r].username)
                 mailTaken == \E x \in users : x.email = Strip(req[r].email)
             IN (/\ req[r].pc = "register_flush"
                 /\ req'[r] # req[r]
                 /\ nameTaken \/ mailTaken)
                => (/\ req'[r].pc = "done"
                    /\ req'[r].status = 400
                    /\ req'[r].token = 0
                    /\ users' = users
                    /\ req'[r].err \in {UsernameExists, EmailExists}
                    /\ req'[r].err = UsernameExists => nameTaken
                    /\ req'[r].err = EmailExists => mailTaken)]_vars

\* a registration with a new username and the email of the one user there
\* is has ended with 'Email already exists', another is still pending
C16_Witness ==
    \E r, s \in Reqs :
        /\ req[r].op = "register" /\ req[r].pc = "done"
        /\ req[r].err = EmailExists /\ req[r].status = 400 /\ req[r].token = 0
        /\ req[s].pc = "register_flush"
        /\ Cardinality(users) = 1
        /\ \E x \in users : x.email = req[r].email /\ x.username # req[r].username

\* C17: a login succeeds exactly when a user has the username, the password
\* matches its hash and the user is active; every other login ends with the
\* same response, 'Invalid credentials' and HTTP 401 and no token
C17_GenericLoginFailure ==
    [][\A r \in Reqs :
          (req[r].pc = "idle" /\ req'[r].op = "login")
          => LET ok == {x \in users : /\ x.username = req'[r].username
                                      /\ x.password_hash = PasswordHash(req'[r].password)
                                      /\ x.is_active}
             IN IF ok # {}
                THEN /\ req'[r].err = ""
                     /\ req'[r].status = 200
                     /\ \E x \in ok : req'[r].token = x.id
                ELSE req'[r] = [IdleReq EXCEPT !.op = "login", !.pc = "done",
                                               !.username = req'[r].username,
                                               !.password = req'[r].password,
                                               !.err = InvalidCredentials,
                                               !.status = 401]]_vars

\* a login with an unknown username and a login of a deactivated user with
\* its password have both ended with 'Invalid credentials'
C17_Witness ==
    \E r, s \in Reqs :
        /\ req[r].op = "login" /\ req[r].pc = "done" /\ req[r].err = InvalidCredentials
        /\ \A x \in users : x.username # req[r].username
        /\ req[s].op = "login" /\ req[s].pc = "done" /\ req[s].err = InvalidCredentials
        /\ \E x \in users : /\ x.username = req[s].username
                             /\ x.password_hash = PasswordHash(req[s].password)
                             /\ ~x.is_active

\* the request carries no token, a token that does not verify, or a token
\* whose user is not an active row of us
BadToken(tok, us) ==
    \/ tok.kind # "valid"
    \/ ~\E x \in us : x.id = tok.sub /\ x.is_active

\* C18: a request to a protected route that has no token, an invalid or
\* expired token, or a token whose user is missing or inactive when the
\* request arrives is answered 401 at once and leaves the four tables as
\* they are
C18_Unauthorized401 ==
    [][\A r \in Reqs :
          (/\ req[r].pc = "idle"
           /\ req'[r].pc # "idle"
           /\ req'[r].op \in ProtectedEndpoints
           /\ BadToken(req'[r].tok, users))
          => /\ req'[r].pc = "done"
             /\ req'[r].status = 401
             /\ users' = users
             /\ posts' = posts
             /\ votes' = votes
             /\ comments' = comments]_vars

\* a delete of post 1 with the token of its deactivated author and a vote
\* with the token of a deleted user have both been answered 401, and the
\* post is still there
C18_Witness ==
    \E r, s \in Reqs :
        /\ req[r].op = "delete_post" /\ req[r].pc = "done" /\ req[r].status = 401
        /\ req[r].tok.kind = "valid"
        /\ \E x \in users : x.id = req[r].tok.sub /\ ~x.is_active
        /\ \E x \in posts : x.author_id = req[r].tok.sub
        /\ req[s].op = "vote" /\ req[s].pc = "done" /\ req[s].status = 401
        /\ req[s].tok.kind = "valid"
        /\ ~UserExists(users, req[s].tok.sub)

\* the answers the handler of q's route gives a request with q's parameters
\* and no token
AnonymousAnswers(q) ==
    LET Answers(err, pages) ==
            IF err # ""
            THEN {[status |-> ListHttp(err), err |-> err, items |-> <<>>,
                   title |-> None, body |-> None]}
            ELSE {[status |-> 200, err |-> "", items |-> i,
                   title |-> None, body |-> None] : i \in pages}
    IN CASE q.op = "list_posts" ->
              LET res == GetAllPosts(posts, q.page, q.per_page, q.sort_by, q.order)
              IN Answers(res.err, res.pages)
         [] q.op = "search_posts" ->
              LET res == SearchPosts(posts, q.q, q.page, q.per_page)
              IN Answers(res.err, res.pages)
         [] q.op = "get_post_comments" ->
              Answers("", GetPostComments(comments, q.post, q.page, q.per_page))
         [] OTHER ->
              IF GetPostById(posts, q.post) # ""
              THEN {[status |-> 404, err |-> PostNotFound, items |-> <<>>,
                     title |-> None, body |-> None]}
              ELSE {[status |-> 200, err |-> "", items |-> <<>>,
                     title |-> x.title, body |-> x.body] :
                        x \in {y \in posts : y.id = q.post}}

\* C19: on an optional route a request whose token is missing, malformed,
\* invalid, expired, or of a missing or inactive user runs the handler with
\* no caller and gets an answer a request without token gets
C19_OptionalAuthAnonymous ==
    [][\A r \in Reqs :
          (/\ req[r].pc = "idle"
           /\ req'[r].pc # "idle"
           /\ req'[r].op \in OptionalEndpoints
           /\ BadToken(req'[r].tok, users))
          => /\ req'[r].pc = "done"
             /\ req'[r].user = 0
             /\ [status |-> req'[r].status, err |-> req'[r].err,
                 items |-> req'[r].items, title |-> req'[r].title,
                 body |-> req'[r].body] \in AnonymousAnswers(req'[r])]_vars

\* a listing with an expired token and one with the token of a deactivated
\* user have both returned the post
C19_Witness ==
    \E r, s \in Reqs :
        /\ req[r].op = "list_posts" /\ req[r].pc = "done"
        /\ req[r].tok.kind = "expired"
        /\ req[r].status = 200 /\ Len(req[r].items) = 1
        /\ req[s].op = "list_posts" /\ req[s].pc = "done"
        /\ req[s].tok.kind = "valid"
        /\ \E x \in users : x.id = req[s].tok.sub /\ ~x.is_active
        /\ req[s].status = 200 /\ req[s].items = req[r].items

\* C20: create_comment on a post that is not there ends at once with 'Post
\* not found' and HTTP 404 and never adds a row; on a post that is there it
\* goes on to the insert, which, the post and the author still there, adds
\* exactly one row: active, with the trimmed content, that author, that post
C20_CreateComment ==
    [][\A r \in Reqs :
          /\ (/\ req[r].pc = "idle"
              /\ req'[r].op = "create_comment"
              /\ req'[r].status # 401)
             => IF PostExists(posts, req'[r].post)
                THEN req'[r].pc = "comment_insert" /\ comments' = comments
                ELSE /\ req'[r].pc = "done"
                     /\ req'[r].err = PostNotFound
                     /\ req'[r].status = 404
                     /\ comments' = comments
          /\ (/\ req[r].pc = "comment_insert"
              /\ req'[r].pc # "comment_insert"
              /\ PostExists(posts, req[r].post)
              /\ UserExists(users, req[r].user))
             => /\ req'[r].status = 201
                /\ \E c \in comments' :
                      /\ c \notin comments
                      /\ comments' = comments \cup {c}
                      /\ \A d \in comments : d.id # c.id
                      /\ c.content = Strip(req[r].content)
                      /\ c.author_id = req[r].user
                      /\ c.post_id = req[r].post
                      /\ c.is_active]_vars

\* a comment sent with a blank before it has been stored without the blank
\* on the post that is there
C20_Witness ==
    \E r \in Reqs, c \in comments :
        /\ req[r].op = "create_comment" /\ req[r].pc = "done"
        /\ req[r].status = 201
        /\ req[r].content = <<" ", "a">>
        /\ c.content = <<"a">> /\ c.author_id = req[r].user
        /\ c.post_id = req[r].post /\ c.is_active
        /\ PostExists(posts, c.post_id)

\* the operations that go through a service method which writes
ServiceOps == {"vote", "delete_post", "update_post", "create_comment", "register"}

Ends(r) == req[r].pc # "done" /\ req'[r].pc = "done"

\* the position of a request inside vote_post after its db.session.commit()
PastCommit(q) == q.pc = "vote_refresh"

\* C22: a mutating operation that returns a failure has committed nothing
\* and writes nothing as it fails: the tables are what they were before it
C22_OneTransaction ==
    [][\A r \in Reqs :
          (Ends(r) /\ req'[r].op \in ServiceOps /\ req'[r].err # "")
          => /\ ~PastCommit(req[r])
             /\ users' = users
             /\ posts' = posts
             /\ votes' = votes
             /\ comments' = comments]_vars

\* C23: a request that fails while its post is not in the store is
\* answered 404, also when the post went between the route's check and the
\* statement of the service
C23_MissingTargetIs404 ==
    [][\A r \in Reqs :
          (/\ Ends(r)
           /\ req'[r].op \in {"update_post", "delete_post", "vote", "create_comment",
                              "get_post"}
           /\ req'[r].err # ""
           /\ ~PostExists(posts, req'[r].post))
          => req'[r].status = 404]_vars

\* C24: a store failure inside a service is answered 500; 403 is answered
\* only to a caller who is not the author, and 400 only on a constraint
\* conflict
C24_StatusOfFailures ==
    [][\A r \in Reqs :
          (Ends(r) /\ req'[r].op \in ServiceOps)
          => /\ req'[r].err = OperationalError => req'[r].status = 500
             /\ req'[r].status = 403
                => req'[r].err \in {DeleteUnauthorized, UpdateUnauthorized}
             /\ req'[r].status = 400
                => req'[r].err \in {VotingConflict, CommentConstraint, UsernameExists,
                                    EmailExists, UserExistsError}]_vars

\* C25: a vote-status request of user u for post p reports has_voted exactly
\* when a vote row of (u, p) is in the store as it is read, with 'upvote'
\* or 'downvote' as the pair's state is, and has_voted false with no vote
\* in the no-vote state
C25_VoteStatus ==
    [][\A r \in Reqs :
          (req[r].pc = "idle" /\ req'[r].op = "vote_status" /\ req'[r].status = 200)
          => LET state == VoteState(votes, req'[r].user, req'[r].post)
             IN /\ req'[r].has_voted
                   <=> \E v \in votes : /\ v.user_id = req'[r].user
                                        /\ v.post_id = req'[r].post
                /\ state = "upvoted" => req'[r].vote = "upvote"
                /\ state = "downvoted" => req'[r].vote = "downvote"
                /\ state = "no-vote" => ~req'[r].has_voted /\ req'[r].vote = "null"]_vars

\* user 1 has downvoted and is told so, while user 2, who has not voted on
\* the same post, is told has_voted false
C25_Witness ==
    \E r, s \in Reqs :
        /\ req[r].op = "vote_status" /\ req[r].pc = "done" /\ req[r].user = 1
        /\ req[r].has_voted /\ req[r].vote = "downvote"
        /\ VoteState(votes, 1, req[r].post) = "downvoted"
        /\ req[s].op = "vote_status" /\ req[s].pc = "done" /\ req[s].user = 2
        /\ req[s].post = req[r].post
        /\ ~req[s].has_voted /\ req[s].vote = "null"

\* the comment with id c
CommentRow(c) == CHOOSE x \in comments : x.id = c

\* C26: the comments listed for a post are comments of that post alone, all
\* active, none twice, newest first, and they are the requested page of all
\* active comments of the post
C26_ListForPost ==
    [][\A r \in Reqs :
          (req[r].pc = "idle" /\ req'[r].op = "get_post_comments" /\ req'[r].status = 200)
          => LET items == req'[r].items
                 all == {c \in comments : c.post_id = req'[r].post /\ c.is_active}
                 before == (req'[r].page - 1) * req'[r].per_page
                 left == IF Cardinality(all) > before THEN Cardinality(all) - before ELSE 0
             IN /\ \A i \in 1..Len(items) : \E c \in all : c.id = items[i]
                /\ \A i, j \in 1..Len(items) :
                      i < j => /\ items[i] # items[j]
                               /\ CommentRow(items[i]).created_at
                                     >= CommentRow(items[j]).created_at
                /\ Len(items) = IF left < req'[r].per_page THEN left ELSE req'[r].per_page
                /\ \A c \in all : \A i \in 1..Len(items) :
                      c.id \notin {items[k] : k \in 1..Len(items)} /\ before = 0
                      => c.created_at <= CommentRow(items[i]).created_at]_vars

\* the two active comments of post 1 are listed, the newer first, and the
\* deactivated comment of post 1 that is older than neither is not
C26_Witness ==
    /\ req[1].op = "get_post_comments" /\ req[1].pc = "done" /\ req[1].post = 1
    /\ Len(req[1].items) = 2
    /\ CommentRow(req[1].items[1]).created_at > CommentRow(req[1].items[2]).created_at
    /\ \E c \in comments :
          /\ c.post_id = 1 /\ ~c.is_active
          /\ c.id \notin {req[1].items[1], req[1].items[2]}
          /\ c.created_at >= CommentRow(req[1].items[1]).created_at

\* C27: a protected request let in with a token acts as the user the token
\* was issued to: its user is the one whose registration or login response
\* carried the token, /api/auth/me returns that user's record, and every
\* post, vote and comment written by the request carries that user's id
C27_TokenIsItsUser ==
    [][/\ \A r \in Reqs :
             (/\ req[r].pc = "idle"
              /\ req'[r].op \in ProtectedEndpoints
              /\ req'[r].status # 401)
             => /\ req'[r].tok.kind = "valid"
                /\ req'[r].user = req'[r].tok.sub
                /\ \A s \in Reqs :
                      (/\ req[s].pc = "done"
                       /\ req[s].op \in {"register", "login"}
                       /\ req[s].token = req'[r].tok.sub)
                      => \E x \in users : /\ x.id = req'[r].user
                                          /\ x.username = Strip(req[s].username)
                /\ req'[r].op = "me"
                   => \E x \in users : /\ x.id = req'[r].tok.sub
                                       /\ req'[r].username = x.username
                                       /\ req'[r].email = x.email
       /\ \A x \in posts' \ posts :
             \E r \in Reqs : /\ req[r].pc = "idle" /\ req'[r].op = "create_post"
                             /\ x.author_id = req'[r].tok.sub
       /\ \A v \in votes' \ votes :
             \E r \in Reqs : /\ req[r].pc = "vote_flush" /\ req'[r].pc # "vote_flush"
                             /\ v.user_id = req[r].tok.sub
       /\ \A c \in comments' \ comments :
             \E r \in Reqs : /\ req[r].pc = "comment_insert"
                             /\ req'[r].pc # "comment_insert"
                             /\ c.author_id = req[r].tok.sub]_vars

\* the second user to register holds its token and has created a post with
\* it: the post carries its id, not the id of the first user
C27_Witness ==
    \E r, s \in Reqs :
        /\ req[s].op = "register" /\ req[s].pc = "done" /\ req[s].token = 2
        /\ req[r].op = "create_post" /\ req[r].pc = "done" /\ req[r].tok = ValidToken(2)
        /\ \E x \in posts : x.id = req[r].post /\ x.author_id = 2
        /\ \E y \in users : y.id = 1 /\ y.is_active
        /\ \E y \in users : y.id = 2 /\ y.username = req[s].username

\* C28: every vote row and every comment row is on a post that is in the
\* store, whatever delete_post does between the post check and the insert
C28_NoOrphanRows ==
    /\ \A v \in votes : PostExists(posts, v.post_id)
    /\ \A c \in comments : PostExists(posts, c.post_id)

\* C29: a step never changes the author_id of a post, and it changes the
\* title or the body of a post only as the write of a PUT whose token is
\* that of the post's author_id
C29_AuthorOwnsPost ==
    [][\A x \in posts, y \in posts' :
          x.id = y.id =>
             /\ y.author_id = x.author_id
             /\ (y.title # x.title \/ y.body # x.body)
                => \E r \in Reqs :
                      /\ req[r].pc = "update_flush" /\ req'[r].pc = "update_return"
                      /\ req[r].post = x.id
                      /\ req[r].tok = ValidToken(x.author_id)]_vars

\* the vote rows of the pairs other than (u, p)
OtherPairs(vs, u, p) == {v \in vs : ~(v.user_id = u /\ v.post_id = p)}

\* C30: a step of a vote call of user u on post p, one that fails included,
\* leaves users, posts and comments as they were and changes no vote row of
\* a pair other than (u, p)
C30_VoteFrame ==
    [][\A r \in Reqs :
          (req'[r] # req[r] /\ req'[r].op = "vote")
          => /\ users' = users
             /\ posts' = posts
             /\ comments' = comments
             /\ OtherPairs(votes', req'[r].user, req'[r].post)
                   = OtherPairs(votes, req'[r].user, req'[r].post)]_vars

\* user 1 has toggled its vote on post 1 off (200) and a vote call of user 2
\* on post 2 has failed in the store (400), the row of user 2 on post 2, the
\* posts and the comment being in the store
C30_Witness ==
    \E r, s \in Reqs :
        /\ req[r].op = "vote" /\ req[r].pc = "done" /\ req[r].status = 200
        /\ req[r].user = 1 /\ req[r].post = 1 /\ req[r].action = "removed"
        /\ req[s].op = "vote" /\ req[s].pc = "done" /\ req[s].err = OperationalError
        /\ req[s].user = 2 /\ req[s].post = 2
        /\ VotesOf(votes, 1, 1) = {}
        /\ VotesOf(votes, 2, 2) # {}
        /\ Cardinality(posts) = 2 /\ comments # {}
====
